---- MODULE Spec2Model ----
(***************************************************************************)
(* Operators of the eth-like coin family of the multicoin wallet:          *)
(*   EthBalanceAndOutputsOperator, EthBlockchainOperator, EthNodeOperator. *)
(*                                                                         *)
(* One behaviour follows ONE operator instance (variable operatorClass     *)
(* says of which class) from its construction on.  The instance's fields   *)
(* are the fields of the record held by bal, bc or node.  The RxJS         *)
(* subscriptions an instance creates live in a pool (field subscriptions): *)
(* a subscription is a pending delay timer or a running pass with node     *)
(* requests in flight.  Replies still on their way to a subscription that  *)
(* was closed are counted in field staleReplies; they are dropped on       *)
(* arrival.  A handler (timer callback, response or error callback, public *)
(* method) is one step: JavaScript runs it to its end before the next.     *)
(*                                                                         *)
(* Spec is the behaviour of an operator instance.  ReconcileSpec applies   *)
(* the list comparison of refreshBalances to every pair of a published and *)
(* a newly computed list.                                                  *)
(***************************************************************************)
EXTENDS Integers, Sequences, FiniteSets, TLC

VARIABLES
  operatorClass,  \* class of the operator instance this behaviour follows
  currentCoin,    \* the Coin the instance was constructed with
  bal,            \* fields of the EthBalanceAndOutputsOperator instance
  bc,             \* fields of the EthBlockchainOperator instance
  node,           \* fields of the EthNodeOperator instance
  walletsService, \* the wallet lists the wallets service emits in this session
  lastStep,       \* observation: the handler that ran last
  reconcile,      \* a list comparison of refreshBalances taken on its own
  services,       \* the operator registry, BlockchainService and SpendingService
  sendForm,       \* SendCoinsFormComponent: sending
  feeForm         \* SendCoinsFormComponent: the fee fields

vars == <<operatorClass, currentCoin, bal, bc, node, walletsService, lastStep, reconcile, services, sendForm,
         feeForm>>

-----------------------------------------------------------------------------
(* Bounds of the model *)

\* Subscription objects that can be open at once.
MaxSubs == 2
\* Replies to closed subscriptions that are followed until they arrive (the
\* transport aborts the others).
MaxStale == 1
\* The node reports balances 0..MaxWei (in the smallest unit).
MaxWei == 1
\* The node reports chain heights 0..MaxHeight.
MaxHeight == 1

Null == "null"
\* A field that is undefined or holds a value: no value, the value v, the value held.
None == {}
Some(v) == {v}
Get(o) == CHOOSE v \in o : TRUE
\* addresses[addresses.length - 1] of an empty array
Undefined == "undefined"

Max(a, b) == IF a >= b THEN a ELSE b

-----------------------------------------------------------------------------
(* Inputs: coins, wallet lists, node replies *)

\* Coin descriptors (isLocal decides the polling periods, confirmationsNeeded
\* the block of the confirmed balance).
Coins ==
  { [isLocal |-> TRUE,  confirmationsNeeded |-> 1],
    [isLocal |-> FALSE, confirmationsNeeded |-> 2] }

WalletBase(id, addrs) == [id |-> id, addresses |-> addrs]

\* Sessions of the wallets service: the wallet lists it emits while the user
\* creates the first wallet, adds or removes an address, changes the address
\* of a wallet, adds a second wallet, or holds a wallet without addresses.
Sessions ==
  { { <<>>, <<WalletBase("w1", <<"a1">>)>> },
    { <<WalletBase("w1", <<"a1">>)>>, <<WalletBase("w1", <<"a1", "a2">>)>> },
    { <<WalletBase("w1", <<"a1">>)>>, <<WalletBase("w1", <<"a2">>)>> },
    { <<WalletBase("w1", <<"a1">>)>>, <<WalletBase("w2", <<"a1">>)>> },
    { <<WalletBase("w1", <<"a1">>), WalletBase("w2", <<"a3">>)>> },
    { <<WalletBase("w1", <<>>)>> } }

\* Every wallet list of a session.
WalletLists == UNION Sessions

HexDigits == <<"0", "1", "2", "3", "4", "5", "6", "7", "8", "9", "a", "b", "c", "d", "e", "f">>

HexDigitValue(c) == (CHOOSE i \in 1..16 : HexDigits[i] = c) - 1

RECURSIVE ParseHex(_)
\* new BigNumber(text, 16) for a text of hex digits
ParseHex(s) ==
  IF Len(s) = 0 THEN 0
  ELSE 16 * ParseHex(SubSeq(s, 1, Len(s) - 1)) + HexDigitValue(s[Len(s)])

\* text.substr(2)
Substr2(s) == SubSeq(s, 3, Len(s))

RECURSIVE HexText(_)
\* n.toString(16)
HexText(n) ==
  IF n < 16 THEN <<HexDigits[n + 1]>>
  ELSE HexText(n \div 16) \o <<HexDigits[(n % 16) + 1]>>

\* '0x' + n.toString(16): the node's encoding of a quantity
Quantity(n) == <<"0", "x">> \o HexText(n)

\* Replies of the node to eth_getBalance and eth_blockNumber.
BalanceReplies == { Quantity(n) : n \in 0..MaxWei }
HeightReplies == { Quantity(n) : n \in 0..MaxHeight }

-----------------------------------------------------------------------------
(* Subjects and subscriptions *)

BalanceSubjects ==
  { "lastBalancesUpdateTime", "walletsWithBalance", "hasPendingTransactions",
    "firstFullUpdateMade", "hadErrorRefreshingBalance", "refreshingBalance" }

NoEmission == [s \in BalanceSubjects \cup {"progress", "remoteNodeDataUpdated"} |-> 0]

\* subject.next(...): the observers are notified once more during the running
\* handler, unless complete() was called on the subject before.
Next1(o, subject) ==
  IF subject \in o.completed THEN o ELSE [o EXCEPT !.emitted[subject] = @ + 1]

SubIds == 1..MaxSubs

FreeSub ==
  [phase |-> "free", delayMs |-> 0, updateWalletsFirst |-> FALSE, fetch |-> <<>>]

\* Node requests of a subscription that are still unanswered.
Outstanding(sub) ==
  CASE sub.phase = "network" -> Cardinality({i \in DOMAIN sub.fetch : sub.fetch[i].step # "done"})
    [] sub.phase = "query" -> 1
    [] OTHER -> 0

Min(a, b) == IF a <= b THEN a ELSE b

\* Unsubscribe with the call left out: the subscription stays open.
UnsubscribeLeftOut(o, id) == o

\* Subscription.unsubscribe() on the subscription held by a field (0: the
\* field is undefined): the timer is cancelled, the replies to the requests
\* in flight will find the subscription closed.
Unsubscribe(o, id) ==
  IF id = 0 \/ o.subscriptions[id].phase = "free" THEN o
  ELSE [o EXCEPT !.subscriptions[id] = FreeSub,
                 !.staleReplies = Min(MaxStale, @ + Outstanding(o.subscriptions[id]))]

\* The source observable of a subscription completed or failed.
Finished(o, id) == [o EXCEPT !.subscriptions[id] = FreeSub]

HasFree(pool) == \E i \in SubIds : pool[i].phase = "free"

NewSub(pool) == CHOOSE i \in SubIds : pool[i].phase = "free" /\ \A j \in 1..(i - 1) : pool[j].phase # "free"

\* Subscriptions that are scheduled or running.
Active(o) == {i \in SubIds : o.subscriptions[i].phase # "free"}

-----------------------------------------------------------------------------
(* EthBalanceAndOutputsOperator: data *)

EmptyMap == [k \in {} |-> 0]

\* Map.set(k, v)
MapSet(m, k, v) == [x \in (DOMAIN m) \cup {k} |-> IF x = k THEN v ELSE m[x]]

\* new AddressBalance(), new WalletBalance().  Amounts are BigNumber values
\* wei / 10^decimals; the model keeps the numerator (the divisor is the same
\* constant in every amount of an operator instance).
NewAddressBalance == [current |-> 0, predicted |-> 0]
NewWalletBalance == [current |-> 0, predicted |-> 0, addresses |-> EmptyMap]

\* Copy of a wallet with balance fields.
walletWithBalanceFromBase(w) ==
  [id |-> w.id, coins |-> 0,
   addresses |-> [j \in DOMAIN w.addresses |-> [address |-> w.addresses[j], coins |-> 0]]]

\* new Date()
NewDate == "date"

\* Fields updatePeriod and errorUpdatePeriod after the constructor ran.
BalanceUpdatePeriod(coin) == IF coin.isLocal THEN 10 * 1000 ELSE 600 * 1000
BalanceErrorUpdatePeriod(coin) == IF coin.isLocal THEN 2 * 1000 ELSE 60 * 1000

\* The instance after its constructor: subscribed to the operator set, nothing published.
NewBalanceOperator(coin) ==
  [ operatorsSubscription |-> "subscribed",
    walletsSubscription |-> Null,
    dataRefreshSubscription |-> 0,
    subscriptions |-> [i \in SubIds |-> FreeSub],
    staleReplies |-> 0,
    updatePeriod |-> BalanceUpdatePeriod(coin),
    errorUpdatePeriod |-> BalanceErrorUpdatePeriod(coin),
    savedWalletsList |-> None,
    walletsWithBalanceList |-> None,
    lastBalancesUpdateTime |-> Null,
    hasPendingTransactions |-> FALSE,
    firstFullUpdateMade |-> FALSE,
    hadErrorRefreshingBalance |-> FALSE,
    refreshingBalance |-> FALSE,
    savedBalanceData |-> EmptyMap,
    temporalSavedBalanceData |-> EmptyMap,
    sameMap |-> FALSE,        \* savedBalanceData and temporalSavedBalanceData are one Map object
    completed |-> {},         \* subjects on which complete() was called
    emitted |-> NoEmission,   \* notifications sent by the handler that ran last
    replaced |-> FALSE,       \* the handler that ran last assigned a new array to walletsWithBalanceList
    thrown |-> FALSE,         \* the handler that ran last raised an error
    lastPass |-> EmptyMap,    \* observation: the balances the last successful network pass
                              \* retrieved from the node, by wallet id
    retrievedWallets |-> {},  \* observation: ids of the wallets of all the successful network passes
    disposed |-> FALSE ]

\* subject.next(v): the value is kept (also by a completed subject), observers are notified.
SetFlag(b, flag, v) == Next1([b EXCEPT ![flag] = v], flag)

-----------------------------------------------------------------------------
(* EthBalanceAndOutputsOperator: dispose and startDataRefreshSubscription *)

\* dispose without line 218: refreshingBalanceSubject is left open.
disposeLeavingOneOpen(b) ==
  [Unsubscribe(b, b.dataRefreshSubscription) EXCEPT
    !.operatorsSubscription = IF @ = "subscribed" THEN "unsubscribed" ELSE @,
    !.walletsSubscription = IF @ = Null THEN Null ELSE "unsubscribed",
    !.completed = @ \cup (BalanceSubjects \ {"refreshingBalance"}),
    !.thrown = (b.operatorsSubscription = Null),
    !.disposed = TRUE]

\* dispose without the test of line 206: unsubscribe() of an undefined
\* walletsSubscription raises a TypeError and the rest is not run.
disposeUnguarded(b) ==
  IF b.walletsSubscription = Null
  THEN [b EXCEPT !.operatorsSubscription = IF @ = "subscribed" THEN "unsubscribed" ELSE @,
                 !.thrown = TRUE]
  ELSE [Unsubscribe(b, b.dataRefreshSubscription) EXCEPT
         !.operatorsSubscription = IF @ = "subscribed" THEN "unsubscribed" ELSE @,
         !.walletsSubscription = "unsubscribed",
         !.completed = @ \cup BalanceSubjects,
         !.disposed = TRUE]

dispose(b) ==
  [Unsubscribe(b, b.dataRefreshSubscription) EXCEPT
    !.operatorsSubscription = IF @ = "subscribed" THEN "unsubscribed" ELSE @,
    !.walletsSubscription = IF @ = Null THEN Null ELSE "unsubscribed",
    !.completed = @ \cup BalanceSubjects,
    !.thrown = (b.operatorsSubscription = Null),  \* operatorsSubscription.unsubscribe() is not guarded
    !.disposed = TRUE]

\* startDataRefreshSubscription without lines 273-275: the previous chain is not cancelled.
startWithoutCancelling(b, delayMs, updateWalletsFirst) ==
  IF b.savedWalletsList = None THEN b
  ELSE LET id == NewSub(b.subscriptions) IN
       [b EXCEPT
         !.subscriptions[id] =
            [FreeSub EXCEPT !.phase = "timer", !.delayMs = delayMs,
                            !.updateWalletsFirst = updateWalletsFirst],
         !.dataRefreshSubscription = id]

startDataRefreshSubscription(b, delayMs, updateWalletsFirst) ==
  LET b1 == Unsubscribe(b, b.dataRefreshSubscription) IN
  IF b.savedWalletsList = None THEN b1
  ELSE LET id == NewSub(b1.subscriptions) IN
       [b1 EXCEPT
         !.subscriptions[id] =
            [FreeSub EXCEPT !.phase = "timer", !.delayMs = delayMs,
                            !.updateWalletsFirst = updateWalletsFirst],
         !.dataRefreshSubscription = id]

\* refreshBalance that schedules the cycle after updatePeriod.
refreshBalanceAfterPeriod(b) == startDataRefreshSubscription(b, b.updatePeriod, FALSE)

\* refreshBalance()
refreshBalance(b) == startDataRefreshSubscription(b, 0, FALSE)

\* A further subscription object can be opened (bound MaxSubs).
CanStart(o) == HasFree(o.subscriptions)

-----------------------------------------------------------------------------
(* EthBalanceAndOutputsOperator: refreshBalances *)

\* retrieveWalletBalance: the values of a balance are written to the wallet object.
FillWallet(wallet, balance) ==
  [wallet EXCEPT
    !.coins = balance.predicted,
    !.addresses = [j \in DOMAIN wallet.addresses |->
       [wallet.addresses[j] EXCEPT !.coins =
          IF wallet.addresses[j].address \in DOMAIN balance.addresses
          THEN balance.addresses[wallet.addresses[j].address].predicted
          ELSE 0]]]

\* TemporalSet without the temporal map: the entry is written to savedBalanceData.
TemporalSetOnSaved(b, id, balance) ==
  [b EXCEPT
    !.temporalSavedBalanceData = MapSet(@, id, balance),
    !.savedBalanceData = MapSet(@, id, balance)]

\* this.temporalSavedBalanceData.set(id, balance); the entry lands in
\* savedBalanceData too while both fields hold the same Map object.
TemporalSet(b, id, balance) ==
  [b EXCEPT
    !.temporalSavedBalanceData = MapSet(@, id, balance),
    !.savedBalanceData = IF b.sameMap THEN MapSet(@, id, balance) ELSE @]

\* UpdateInPlace that calls informDataUpdated() whether or not a field changed.
UpdateInPlaceAlwaysInforming(published, temporalWallets) ==
  [list |-> Some([i \in DOMAIN Get(published) |->
                   [Get(published)[i] EXCEPT !.coins = temporalWallets[i].coins,
                                             !.addresses = temporalWallets[i].addresses]]),
   replaced |-> FALSE, informs |-> 1]

\* The field-level update of refreshBalances (lines 374-398).
UpdateInPlace(published, temporalWallets) ==
  LET list == Get(published)
      sameCount(i) == Len(list[i].addresses) = Len(temporalWallets[i].addresses)
      changeDetected ==
        \E i \in DOMAIN list :
          \/ list[i].coins # temporalWallets[i].coins
          \/ ~sameCount(i)
          \/ \E j \in DOMAIN list[i].addresses :
               sameCount(i) /\ list[i].addresses[j].coins # temporalWallets[i].addresses[j].coins
      updated ==
        [i \in DOMAIN list |->
          [list[i] EXCEPT
            !.coins = temporalWallets[i].coins,
            !.addresses =
              IF ~sameCount(i) THEN temporalWallets[i].addresses
              ELSE [j \in DOMAIN list[i].addresses |->
                     [list[i].addresses[j] EXCEPT !.coins = temporalWallets[i].addresses[j].coins]]]]
  IN [list |-> Some(updated), replaced |-> FALSE, informs |-> IF changeDetected THEN 1 ELSE 0]

\* The whole list is replaced (lines 359-360, 371-372).
ReplaceList(temporalWallets) ==
  [list |-> Some(temporalWallets), replaced |-> TRUE, informs |-> 1]

\* Reconcile without the comparison of the ids (lines 362-373).
ReconcileWithoutIds(published, temporalWallets, quick) ==
  IF published = None \/ quick \/ Len(Get(published)) # Len(temporalWallets)
  THEN ReplaceList(temporalWallets)
  ELSE UpdateInPlace(published, temporalWallets)

\* Reconcile that replaces the list whenever a balance changed.
ReconcileReplacingOnChange(published, temporalWallets, quick) ==
  IF published = None \/ quick \/ Len(Get(published)) # Len(temporalWallets)
  THEN ReplaceList(temporalWallets)
  ELSE IF \E i \in DOMAIN Get(published) : Get(published)[i].id # temporalWallets[i].id
  THEN ReplaceList(temporalWallets)
  ELSE IF UpdateInPlace(published, temporalWallets).informs = 1
  THEN ReplaceList(temporalWallets)
  ELSE UpdateInPlace(published, temporalWallets)

\* The list comparison of refreshBalances: the list to publish, whether it is
\* the newly created array (replaced) or the published array updated in
\* place, and the number of informDataUpdated() calls.
Reconcile(published, temporalWallets, quick) ==
  IF published = None \/ quick \/ Len(Get(published)) # Len(temporalWallets)
  THEN ReplaceList(temporalWallets)
  ELSE IF \E i \in DOMAIN Get(published) : Get(published)[i].id # temporalWallets[i].id
  THEN ReplaceList(temporalWallets)
  ELSE UpdateInPlace(published, temporalWallets)

\* informDataUpdated(), called informs times (0 or 1).
informDataUpdated(b, informs) == IF informs = 0 THEN b ELSE Next1(b, "walletsWithBalance")

\* The tap clearing hasPendingTransactions in a quick pass.
refreshBalancesTapQuickClearsPending(b, temporalWallets, walletHasPendingTx, quick) ==
  LET b1 == SetFlag(b, "hasPendingTransactions",
                    ~quick /\ \E i \in DOMAIN walletHasPendingTx : walletHasPendingTx[i])
      b2 == IF quick THEN b1
            ELSE SetFlag(b1, "lastBalancesUpdateTime", NewDate)
      r  == Reconcile(b2.walletsWithBalanceList, temporalWallets, quick)
      b3 == informDataUpdated([b2 EXCEPT !.walletsWithBalanceList = r.list,
                                         !.replaced = @ \/ r.replaced], r.informs)
      b4 == IF quick THEN b3
            ELSE [b3 EXCEPT !.savedBalanceData = b3.temporalSavedBalanceData, !.sameMap = TRUE]
  IN IF quick \/ b4.firstFullUpdateMade THEN b4 ELSE SetFlag(b4, "firstFullUpdateMade", TRUE)

\* The tap of refreshBalances, run with the results of all the wallets.
refreshBalancesTap(b, temporalWallets, walletHasPendingTx, quick) ==
  LET b1 == SetFlag(b, "hasPendingTransactions",
                    \E i \in DOMAIN walletHasPendingTx : walletHasPendingTx[i])
      b2 == IF quick THEN b1
            ELSE SetFlag(b1, "lastBalancesUpdateTime", NewDate)
      r  == Reconcile(b2.walletsWithBalanceList, temporalWallets, quick)
      b3 == informDataUpdated([b2 EXCEPT !.walletsWithBalanceList = r.list,
                                         !.replaced = @ \/ r.replaced], r.informs)
      b4 == IF quick THEN b3
            ELSE [b3 EXCEPT !.savedBalanceData = b3.temporalSavedBalanceData, !.sameMap = TRUE]
  IN IF quick \/ b4.firstFullUpdateMade THEN b4 ELSE SetFlag(b4, "firstFullUpdateMade", TRUE)

RECURSIVE SetSaved(_, _, _, _)
\* The quick pass's temporalSavedBalanceData.set of each wallet, in list order.
SetSaved(b, wallets, balances, i) ==
  IF i > Len(wallets) THEN b
  ELSE SetSaved(TemporalSet(b, wallets[i].id, balances[i]), wallets, balances, i + 1)

\* quickPass that takes the balances from temporalSavedBalanceData.
quickPassFromTemporal(b) ==
  LET wallets == Get(b.savedWalletsList)
      balances == [i \in DOMAIN wallets |->
                    IF wallets[i].id \in DOMAIN b.temporalSavedBalanceData
                    THEN b.temporalSavedBalanceData[wallets[i].id] ELSE NewWalletBalance]
      temporalWallets == [i \in DOMAIN wallets |->
                    FillWallet(walletWithBalanceFromBase(wallets[i]), balances[i])]
      walletHasPendingTx == IF Len(wallets) > 0
                            THEN [i \in DOMAIN wallets |-> b.hasPendingTransactions]
                            ELSE <<FALSE>>
  IN refreshBalancesTap(SetSaved(b, wallets, balances, 1), temporalWallets, walletHasPendingTx, TRUE)

\* refreshBalances(this.savedWalletsList, true): the quick pass.
quickPass(b) ==
  LET wallets == Get(b.savedWalletsList)
      balances == [i \in DOMAIN wallets |->
                    IF wallets[i].id \in DOMAIN b.savedBalanceData
                    THEN b.savedBalanceData[wallets[i].id] ELSE NewWalletBalance]
      temporalWallets == [i \in DOMAIN wallets |->
                    FillWallet(walletWithBalanceFromBase(wallets[i]), balances[i])]
      walletHasPendingTx == IF Len(wallets) > 0
                            THEN [i \in DOMAIN wallets |-> b.hasPendingTransactions]
                            ELSE <<FALSE>>
  IN refreshBalancesTap(SetSaved(b, wallets, balances, 1), temporalWallets, walletHasPendingTx, TRUE)

-----------------------------------------------------------------------------
(* EthBalanceAndOutputsOperator: the network pass *)

\* State of retrieveWalletBalance(wallet, false) for one wallet of the pass:
\* the request in flight (step) and the locals of recursivelyGetBalances.
NewFetch(w) ==
  [ wallet |-> w, step |-> "blockNumber", addresses |-> <<>>, currentBlockNumber |-> 0,
    predictedBalance |-> 0, currentElements |-> EmptyMap, pendingTx |-> FALSE ]

\* const currentAddress = addresses[addresses.length - 1]
CurrentAddress(f) == IF Len(f.addresses) = 0 THEN Undefined ELSE f.addresses[Len(f.addresses)]

\* BlockForLastConfirmedBalance that goes back confirmationsNeeded blocks.
BlockWithoutOffset(currentBlockNumber, coin) ==
  Max(0, currentBlockNumber - coin.confirmationsNeeded)

\* Block whose balance is taken as the confirmed balance.
BlockForLastConfirmedBalance(currentBlockNumber, coin) ==
  Max(0, currentBlockNumber - (coin.confirmationsNeeded - 1))

\* The request a fetch has in flight at the node: method and parameters.
Request(f, coin) ==
  CASE f.step = "blockNumber" -> <<"eth_blockNumber">>
    [] f.step = "pending" -> <<"eth_getBalance", CurrentAddress(f), "pending">>
    [] f.step = "confirmed" ->
         <<"eth_getBalance", CurrentAddress(f),
           Quantity(BlockForLastConfirmedBalance(f.currentBlockNumber, coin))>>
    [] OTHER -> <<>>

\* Reply to eth_blockNumber: recursivelyGetBalances starts with all the addresses.
onBlockNumber(f, reply) ==
  [f EXCEPT !.step = "pending",
            !.currentBlockNumber = ParseHex(Substr2(reply)),
            !.addresses = [j \in DOMAIN f.wallet.addresses |-> f.wallet.addresses[j].address]]

\* Reply to eth_getBalance(currentAddress, 'pending').
onPredictedBalance(f, reply) ==
  [f EXCEPT !.step = "confirmed", !.predictedBalance = ParseHex(Substr2(reply))]

\* Reply to eth_getBalance(currentAddress, block): save, then the next address or the end.
onConfirmedBalance(f, reply) ==
  LET elements == MapSet(f.currentElements, CurrentAddress(f),
                         [current |-> ParseHex(Substr2(reply)), predicted |-> f.predictedBalance])
  IN IF Len(f.addresses) > 1
     THEN [f EXCEPT !.currentElements = elements, !.predictedBalance = 0, !.step = "pending",
                    !.addresses = SubSeq(f.addresses, 1, Len(f.addresses) - 1)]
     ELSE [f EXCEPT !.currentElements = elements, !.predictedBalance = 0, !.step = "done",
                    !.addresses = <<>>, !.currentBlockNumber = 0]

RECURSIVE SumSeq(_)
SumSeq(s) == IF Len(s) = 0 THEN 0 ELSE s[1] + SumSeq(Tail(s))

\* The WalletBalance built from the map recursivelyGetBalances returned.
WalletBalanceOf(wallet, result) ==
  LET addressBalance(j) ==
        IF wallet.addresses[j].address \in DOMAIN result
        THEN result[wallet.addresses[j].address] ELSE NewAddressBalance
  IN [ current |-> SumSeq([j \in DOMAIN wallet.addresses |-> addressBalance(j).current]),
       predicted |-> SumSeq([j \in DOMAIN wallet.addresses |-> addressBalance(j).predicted]),
       addresses |-> [a \in {wallet.addresses[j].address : j \in DOMAIN wallet.addresses} |->
                       LET j == CHOOSE k \in DOMAIN wallet.addresses : wallet.addresses[k].address = a
                       IN addressBalance(j)] ]

\* The subscription failed on the reply of one wallet: the requests of the
\* other wallets of the pass stay in flight and are dropped on arrival.
Failed(o, id) ==
  [o EXCEPT !.subscriptions[id] = FreeSub,
            !.staleReplies = Min(MaxStale, @ + Outstanding(o.subscriptions[id]) - 1)]

\* forkJoin delivered the results of all the wallets of a network pass: the
\* balances the pass retrieved are observed, by wallet id.
passCompleted(b, fetch) ==
  LET ids == { fetch[k].wallet.id : k \in DOMAIN fetch }
      balanceOf(id) ==
        LET k == CHOOSE x \in DOMAIN fetch : fetch[x].wallet.id = id
        IN WalletBalanceOf(fetch[k].wallet, fetch[k].currentElements)
  IN [b EXCEPT !.lastPass = [id \in ids |-> balanceOf(id)],
               !.retrievedWallets = @ \cup ids]

\* onSuccess with updateWalletsFirst = true in line 302.
onSuccessQuickFirst(b, reDispose) ==
  LET b1 == SetFlag(b, "hadErrorRefreshingBalance", FALSE)
      b2 == IF reDispose THEN dispose(b1) ELSE b1
      b3 == SetFlag(b2, "refreshingBalance", FALSE)
  IN startDataRefreshSubscription(b3, b3.updatePeriod, TRUE)

\* Success handler of the subscription.  reDispose: an observer of
\* hadErrorRefreshingBalance calls dispose() from inside the notification.
onSuccess(b, reDispose) ==
  LET b1 == SetFlag(b, "hadErrorRefreshingBalance", FALSE)
      b2 == IF reDispose THEN dispose(b1) ELSE b1
      b3 == SetFlag(b2, "refreshingBalance", FALSE)
  IN startDataRefreshSubscription(b3, b3.updatePeriod, FALSE)

\* Error handler that reports the failed pass as a full update.
onErrorReportingUpdate(b, reDispose) ==
  LET b0 == SetFlag(SetFlag(b, "lastBalancesUpdateTime", NewDate), "firstFullUpdateMade", TRUE)
      b1 == SetFlag(b0, "hadErrorRefreshingBalance", TRUE)
      b2 == IF reDispose THEN dispose(b1) ELSE b1
      b3 == SetFlag(b2, "refreshingBalance", FALSE)
  IN startDataRefreshSubscription(b3, b3.errorUpdatePeriod, FALSE)

\* Error handler of the subscription.
onError(b, reDispose) ==
  LET b1 == SetFlag(b, "hadErrorRefreshingBalance", TRUE)
      b2 == IF reDispose THEN dispose(b1) ELSE b1
      b3 == SetFlag(b2, "refreshingBalance", FALSE)
  IN startDataRefreshSubscription(b3, b3.errorUpdatePeriod, FALSE)

\* afterDelay that also clears the error flag when the cycle starts.
afterDelayClearingError(b, id) ==
  LET b1 == SetFlag(SetFlag(b, "hadErrorRefreshingBalance", FALSE), "refreshingBalance", TRUE)
  IN IF b.subscriptions[id].updateWalletsFirst THEN quickPass(b1) ELSE b1

\* First mergeMap of the subscription, after the delay.
afterDelay(b, id) ==
  LET b1 == SetFlag(b, "refreshingBalance", TRUE)
  IN IF b.subscriptions[id].updateWalletsFirst THEN quickPass(b1) ELSE b1

\* refreshBalances(this.savedWalletsList, false): one eth_blockNumber request
\* per wallet, or the fake response of an empty list, which completes the pass.
startNetworkPass(b, id, reDispose) ==
  LET wallets == Get(b.savedWalletsList)
      b1 == [b EXCEPT !.temporalSavedBalanceData = EmptyMap, !.sameMap = FALSE]
  IN IF Len(wallets) > 0
     THEN [b1 EXCEPT !.subscriptions[id] =
             [FreeSub EXCEPT !.phase = "network",
                !.fetch = [i \in DOMAIN wallets |-> NewFetch(walletWithBalanceFromBase(wallets[i]))]]]
     ELSE onSuccess(Finished(refreshBalancesTap(passCompleted(b1, <<>>), <<>>, <<FALSE>>, FALSE), id),
                    reDispose)

\* The fetch of a wallet after a reply of the node.
ReplyFetch(f, reply) ==
  CASE f.step = "blockNumber" -> onBlockNumber(f, reply)
    [] f.step = "pending" -> onPredictedBalance(f, reply)
    [] f.step = "confirmed" -> onConfirmedBalance(f, reply)

\* walletRetrieved that reports a pending transaction only when the predicted
\* balance is above the confirmed one.
walletRetrievedIncomingOnly(b, id, i, f) ==
  LET balance == WalletBalanceOf(f.wallet, f.currentElements)
      done == [f EXCEPT !.wallet = FillWallet(f.wallet, balance),
                        !.pendingTx = (balance.predicted > balance.current)]
  IN TemporalSet([b EXCEPT !.subscriptions[id].fetch[i] = done], f.wallet.id, balance)

\* The last reply of wallet i arrived: its balance is saved and written to its wallet object.
walletRetrieved(b, id, i, f) ==
  LET balance == WalletBalanceOf(f.wallet, f.currentElements)
      done == [f EXCEPT !.wallet = FillWallet(f.wallet, balance),
                        !.pendingTx = (balance.current # balance.predicted)]
  IN TemporalSet([b EXCEPT !.subscriptions[id].fetch[i] = done], f.wallet.id, balance)

AllDone(fetch) == \A k \in DOMAIN fetch : fetch[k].step = "done"

ComputedWallets(fetch) == [k \in DOMAIN fetch |-> fetch[k].wallet]

\* A reply of the node reaches the running pass.
networkReply(b, id, i, reply, reDispose) ==
  LET f == ReplyFetch(b.subscriptions[id].fetch[i], reply)
  IN IF f.step # "done" THEN [b EXCEPT !.subscriptions[id].fetch[i] = f]
     ELSE LET b1 == walletRetrieved(b, id, i, f)
              fetch == b1.subscriptions[id].fetch
          IN IF AllDone(fetch)
             THEN onSuccess(Finished(refreshBalancesTap(passCompleted(b1, fetch), ComputedWallets(fetch),
                                [k \in DOMAIN fetch |-> fetch[k].pendingTx], FALSE), id), reDispose)
             ELSE b1

\* An error of the node that ends the chain without scheduling another.
networkErrorEndingPolling(b, id, reDispose) ==
  SetFlag(SetFlag(Failed(b, id), "hadErrorRefreshingBalance", TRUE), "refreshingBalance", FALSE)

\* An error of the node (or of the transport) reaches the running pass.
networkError(b, id, reDispose) ==
  onError(Failed(b, id), reDispose)

-----------------------------------------------------------------------------
(* EthBlockchainOperator *)

\* Replies of the node to eth_syncing: false, or the blocks as hex quantities.
NotSyncing == [isFalse |-> TRUE, currentBlock |-> <<>>, highestBlock |-> <<>>]
Syncing(current, highest) ==
  [isFalse |-> FALSE, currentBlock |-> Quantity(current), highestBlock |-> Quantity(highest)]
SyncingReplies == { NotSyncing, Syncing(100, 200), Syncing(0, 1), Syncing(255, 256) }

BlockchainUpdatePeriod(coin) == IF coin.isLocal THEN 2 * 1000 ELSE 120 * 1000
\* errorUpdatePeriod with a retry delay for remote nodes above their updatePeriod.
BlockchainErrorUpdatePeriodLong(coin) == IF coin.isLocal THEN 2 * 1000 ELSE 300 * 1000

BlockchainErrorUpdatePeriod(coin) == IF coin.isLocal THEN 2 * 1000 ELSE 30 * 1000

NewBlockchainOperator(coin) ==
  [ operatorsSubscription |-> "subscribed",
    balanceAndOutputsOperator |-> Null,
    dataSubscription |-> 0,
    subscriptions |-> [i \in SubIds |-> FreeSub],
    staleReplies |-> 0,
    updatePeriod |-> BlockchainUpdatePeriod(coin),
    errorUpdatePeriod |-> BlockchainErrorUpdatePeriod(coin),
    progress |-> None,        \* the event the ReplaySubject replays
    completed |-> {},
    emitted |-> NoEmission,
    thrown |-> FALSE,
    disposed |-> FALSE ]

\* dispose without line 71: the subscription to the operator set stays open.
blockchainDisposeKeepingOperators(o) ==
  [Unsubscribe(o, o.dataSubscription) EXCEPT
    !.completed = @ \cup {"progress"},
    !.disposed = TRUE]

\* dispose()
blockchainDispose(o) ==
  [Unsubscribe(o, o.dataSubscription) EXCEPT
    !.operatorsSubscription = IF @ = "subscribed" THEN "unsubscribed" ELSE @,
    !.completed = @ \cup {"progress"},
    !.thrown = (o.operatorsSubscription = Null),
    !.disposed = TRUE]

blockchainStartDataRefreshSubscription(o, delayMs) ==
  LET o1 == Unsubscribe(o, o.dataSubscription)
      id == NewSub(o1.subscriptions)
  IN [o1 EXCEPT
       !.subscriptions[id] = [FreeSub EXCEPT !.phase = "timer", !.delayMs = delayMs],
       !.dataSubscription = id]

\* ProgressEvent with the two blocks of the reply exchanged.
ProgressEventSwapped(result) ==
  IF result.isFalse
  THEN [currentBlock |-> 0, highestBlock |-> 0, synchronized |-> TRUE]
  ELSE [currentBlock |-> ParseHex(Substr2(result.highestBlock)),
        highestBlock |-> ParseHex(Substr2(result.currentBlock)),
        synchronized |-> FALSE]

\* The ProgressEvent of a reply.
ProgressEvent(result) ==
  IF result.isFalse
  THEN [currentBlock |-> 0, highestBlock |-> 0, synchronized |-> TRUE]
  ELSE [currentBlock |-> ParseHex(Substr2(result.currentBlock)),
        highestBlock |-> ParseHex(Substr2(result.highestBlock)),
        synchronized |-> FALSE]

\* progressSubject.next(event): replayed to later observers unless the subject is stopped.
ProgressNext(o, event) ==
  Next1([o EXCEPT !.progress = IF "progress" \in o.completed THEN @ ELSE Some(event)], "progress")

\* Response handler of the subscription.  reDispose: an observer of progress
\* calls dispose() from inside the notification.
blockchainOnResult(o, result, reDispose) ==
  LET o1 == ProgressNext(o, ProgressEvent(result))
      o2 == IF reDispose THEN blockchainDispose(o1) ELSE o1
  IN blockchainStartDataRefreshSubscription(o2, o2.updatePeriod)

\* Error handler that does not reschedule.
blockchainOnErrorGivingUp(o) == o

\* Error handler of the subscription.
blockchainOnError(o) == blockchainStartDataRefreshSubscription(o, o.errorUpdatePeriod)

-----------------------------------------------------------------------------
(* EthNodeOperator *)

\* Replies of the node to web3_clientVersion, as texts (sequences of characters).
VersionReplies ==
  { <<"G", "e", "t", "h", "/", "v", "1", "/", "l", "i", "n", "u", "x">>,
    <<"a", "/", "b">>,
    <<"/">>,
    <<>>,
    <<"P", "a", "r", "i", "t", "y">>,
    <<"a", "b", "c", "d", "e", "f", "g", "h", "i", "j", "k", "l", "m", "n">>,
    <<"a", "b", "c", "d", "e", "f", "g", "h", "i", "j", "k", "l", "m", "n", "o">>,
    <<"a", "b", "c", "d", "e", "f", "g", "h", "i", "j", "k", "l", "m", "n", "o", "p">> }

RECURSIVE Split(_, _)
\* text.split(separator)
Split(text, separator) ==
  IF \A k \in DOMAIN text : text[k] # separator THEN <<text>>
  ELSE LET k == CHOOSE x \in DOMAIN text :
                  text[x] = separator /\ \A y \in 1..(x - 1) : text[y] # separator
       IN <<SubSeq(text, 1, k - 1)>> \o Split(SubSeq(text, k + 1, Len(text)), separator)

\* NodeVersion that keeps replies of up to 15 characters whole.
NodeVersionUpTo15(response) ==
  LET parts == Split(response, "/") IN
  IF Len(parts) >= 2 THEN parts[1] \o <<"/">> \o parts[2]
  ELSE IF Len(response) <= 15 THEN response
  ELSE SubSeq(response, 1, 12) \o <<".", ".", ".">>

\* The version shown for a reply.
NodeVersion(response) ==
  LET parts == Split(response, "/") IN
  IF Len(parts) >= 2 THEN parts[1] \o <<"/">> \o parts[2]
  ELSE IF Len(response) < 15 THEN response
  ELSE SubSeq(response, 1, 12) \o <<".", ".", ".">>

NodeRetryDelay(coin) == IF coin.isLocal THEN 2000 ELSE 15000

nodeUpdateData(o, delayMs) ==
  LET o1 == Unsubscribe(o, o.basicInfoSubscription)
      id == NewSub(o1.subscriptions)
  IN [o1 EXCEPT
       !.subscriptions[id] = [FreeSub EXCEPT !.phase = "timer", !.delayMs = delayMs],
       !.basicInfoSubscription = id]

\* The instance after its constructor, which calls updateData(0).
NewNodeOperator(coin) ==
  nodeUpdateData(
    [ basicInfoSubscription |-> 0,
      subscriptions |-> [i \in SubIds |-> FreeSub],
      staleReplies |-> 0,
      nodeVersion |-> <<>>,
      remoteNodeDataUpdated |-> FALSE,
      completed |-> {},
      emitted |-> NoEmission,
      thrown |-> FALSE,
      disposed |-> FALSE ], 0)

nodeDispose(o) ==
  [Unsubscribe(o, o.basicInfoSubscription) EXCEPT
    !.completed = @ \cup {"remoteNodeDataUpdated"},
    !.disposed = TRUE]

\* Response handler that goes on querying after the retry delay.
nodeOnResponseQueryingOn(o, response) ==
  nodeUpdateData(
    SetFlag([o EXCEPT !.nodeVersion = NodeVersion(response)], "remoteNodeDataUpdated", TRUE), 2000)

\* Response handler of updateData.
nodeOnResponse(o, response) ==
  SetFlag([o EXCEPT !.nodeVersion = NodeVersion(response)], "remoteNodeDataUpdated", TRUE)

nodeOnError(o, coin) == nodeUpdateData(o, NodeRetryDelay(coin))

-----------------------------------------------------------------------------
(* SendCoinsFormComponent: the fee and the recommended fees *)

\* Largest recommended fee, in units of 0.00001 coins.
MaxFee == 2

\* Amounts are integers in units of 0.000001 coins: one decimal more than
\* maxFeeDecimals.
maxFeeDecimals == 5
Unit == 10

\* BigNumber.decimalPlaces(maxFeeDecimals) with the library's rounding mode
\* (ROUND_HALF_UP): the nearest amount of 5 decimals, ties away from zero.
DecimalPlaces(amount) ==
  IF amount >= 0 THEN ((amount + 5) \div Unit) * Unit
  ELSE -((((-amount) + 5) \div Unit) * Unit)

\* Fees a node recommends: zero, less than 0.00001 and multiples of 0.00001
\* for the three fastest types, zero or 0.00001 for the two slowest.
FeeAmounts == {0, 4} \cup { Unit * n : n \in 1..MaxFee }
LowFeeAmounts == {0, Unit}
RecommendedFees ==
  [veryHigh : FeeAmounts, high : FeeAmounts, normal : FeeAmounts,
   low : LowFeeAmounts, veryLow : LowFeeAmounts]

\* Values of the fee field: empty, a text that is not a number, a number.
EmptyFee == [kind |-> "empty", value |-> 0]
NumberFee(amount) == [kind |-> "number", value |-> amount]
FeeEntries ==
  {EmptyFee, [kind |-> "text", value |-> 0]} \cup
  { NumberFee(amount) : amount \in {-Unit, -1, 0, 6} \cup FeeAmounts }

CustomFeeType == 5

NewFeeForm(coinHasHours) ==
  [ coinHasHours |-> coinHasHours,
    fee |-> EmptyFee,                 \* form.get('fee').value
    feeType |-> CustomFeeType,        \* form.get('feeType').value
    recommendedFeesMap |-> None,
    zeroFeeAllowed |-> TRUE,
    subformsValid |-> FALSE,          \* formSourceSelection and formMultipleDestinations
    selected |-> FALSE ]              \* observation: the last handler selected a fee type

useSelectedFee(f) ==
  IF f.recommendedFeesMap # None /\ f.feeType \in DOMAIN Get(f.recommendedFeesMap)
  THEN [f EXCEPT !.fee = NumberFee(Get(f.recommendedFeesMap)[f.feeType])]
  ELSE f

populateRecommendedFees(f, recommendedFees) ==
  LET map == [t \in 0..4 |->
                DecimalPlaces(CASE t = 0 -> recommendedFees.veryHigh
                                [] t = 1 -> recommendedFees.high
                                [] t = 2 -> recommendedFees.normal
                                [] t = 3 -> recommendedFees.low
                                [] t = 4 -> recommendedFees.veryLow)]
  IN [f EXCEPT !.recommendedFeesMap = Some(map),
               !.zeroFeeAllowed = \E t \in 0..4 : map[t] = 0]

\* The fee type the handler of getCurrentRecommendedFees selects.
FeeTypeFor(fees) ==
  IF DecimalPlaces(fees.high) <= DecimalPlaces(fees.normal)
  THEN IF DecimalPlaces(fees.veryHigh) <= DecimalPlaces(fees.high) THEN 0 ELSE 1
  ELSE 2

\* Handler of spendingService.getCurrentRecommendedFees().
getRecommendedFees(f, fees) ==
  LET f1 == populateRecommendedFees(f, fees)
      f2 == IF f1.fee = EmptyFee
            THEN [f1 EXCEPT !.feeType = FeeTypeFor(fees), !.selected = TRUE]
            ELSE [f1 EXCEPT !.selected = FALSE]
  IN useSelectedFee(f2)

\* validateForm(): "valid" stands for null.
validateForm(f) ==
  IF ~f.subformsValid THEN "Invalid"
  ELSE IF f.coinHasHours THEN "valid"
  ELSE IF f.fee.kind # "number" \/ f.fee.value > DecimalPlaces(f.fee.value) THEN "Invalid"
  ELSE IF ~f.zeroFeeAllowed /\ f.fee.value <= 0 THEN "Invalid"
  ELSE "valid"

-----------------------------------------------------------------------------
(* The operator registry and the services that consume it *)

\* Operator bundles the registry builds (coin changes + 1).
MaxGenerations == 2
\* Calls to a service whose Observable is followed until it completes.
MaxCalls == 1

\* What a service's operator field, or the registry's stream, holds: nothing
\* yet (undefined), null, or the operators of the bundle of a generation.
NoOperator(kind) == [kind |-> kind, generation |-> 0]
OperatorOf(generation) == [kind |-> "operator", generation |-> generation]

BlockchainMethods == {"progress", "getLastBlock", "getCoinSupply"}
SpendingMethods == {"createTransaction", "signTransaction", "injectTransaction"}

NoCall == [service |-> "none", method |-> "none", generation |-> 0, thrown |-> FALSE]

\* The registry before it built a bundle; SpendingService subscribes in its
\* constructor, BlockchainService in initialize().
NewServices ==
  [ bundles |-> 0,                                  \* bundles built so far
    live |-> {},                                    \* bundles built and not disposed
    currentOperators |-> NoOperator("undefined"),   \* last value the stream emitted
    phase |-> "idle",                               \* position in a coin change
    blockchainService |-> [initialized |-> FALSE, operator |-> NoOperator("undefined")],
    spendingService |-> [operator |-> NoOperator("undefined")],
    calls |-> {},                                   \* calls whose Observable is open
    lastCall |-> NoCall ]                           \* observation: the call made last

-----------------------------------------------------------------------------
(* SendCoinsFormComponent: sending a transaction from the form *)

\* Longest text of the note field.
MaxNote == 2

\* Texts of the note field: blanks and one other character.
RECURSIVE TextsUpTo(_)
TextsUpTo(n) ==
  IF n = 0 THEN {<<>>}
  ELSE TextsUpTo(n - 1) \cup
       { Append(text, c) : text \in { t \in TextsUpTo(n - 1) : Len(t) = n - 1 }, c \in {" ", "n"} }
Notes == TextsUpTo(MaxNote)

\* String.prototype.trim(): text without its leading and trailing blanks.
RECURSIVE TrimStart(_)
TrimStart(text) ==
  IF text # <<>> /\ Head(text) = " " THEN TrimStart(Tail(text)) ELSE text
RECURSIVE TrimEnd(_)
TrimEnd(text) ==
  IF text # <<>> /\ text[Len(text)] = " " THEN TrimEnd(SubSeq(text, 1, Len(text) - 1)) ELSE text
Trim(text) == TrimEnd(TrimStart(text))

\* What the form reads of selectedSources.wallet.
Wallets == [encrypted : BOOLEAN, isHardware : BOOLEAN, bip44 : BOOLEAN]

\* No call of spendingService.createTransaction was made yet.
NoRequest == [made |-> FALSE, unsigned |-> FALSE, password |-> FALSE]

\* The form after ngOnInit, in its normal mode, with a software wallet that
\* is not encrypted.  Of a button only the state the form reads (isLoading)
\* is kept.
NewSendForm ==
  [ showForManualUnsigned |-> FALSE,
    wallet |-> [encrypted |-> FALSE, isHardware |-> FALSE, bip44 |-> FALSE],
    passwordDialog |-> FALSE,    \* the password dialog is open
    request |-> NoRequest,       \* observation: the last call of createTransaction
    note |-> <<>>,               \* form.value.note
    destinations |-> FALSE,      \* the destinations are filled: form.valid
    busy |-> FALSE,
    switchEnabled |-> TRUE,      \* navBarSwitchService
    msgBar |-> "none",           \* msgBarService: none, done, warning, error
    sendButton |-> "normal",     \* normal, loading, success
    previewButton |-> "normal",
    stage |-> "idle",            \* idle, password, hwCheck, creating, injecting, copyRawTx
    creatingPreviewTx |-> FALSE,
    transactionNote |-> <<>>,    \* const note of createTransaction
    resetTimer |-> FALSE,        \* setTimeout(() => sendButton.resetState(), 3000)
    submitted |-> FALSE,         \* onFormSubmitted emitted: the preview opens
    outcome |-> "none" ]         \* observation: how the last reply was handled

showBusy(f, creatingPreviewTx) ==
  [f EXCEPT
    !.previewButton = IF creatingPreviewTx THEN "loading" ELSE @,
    !.sendButton = IF creatingPreviewTx THEN @ ELSE "loading",
    !.busy = TRUE,
    !.switchEnabled = FALSE]

resetForm(f) == [f EXCEPT !.destinations = FALSE, !.note = <<>>]

showSuccess(f, showDone) ==
  LET reset == resetForm([f EXCEPT !.busy = FALSE, !.switchEnabled = TRUE]) IN
  IF showDone
  THEN [reset EXCEPT !.msgBar = "done", !.sendButton = "normal"]
  ELSE [reset EXCEPT !.sendButton = "success", !.resetTimer = TRUE]

showError(f) ==
  [f EXCEPT
    !.busy = FALSE,
    !.msgBar = "error",
    !.switchEnabled = TRUE,
    !.previewButton = "normal",
    !.sendButton = "normal"]

\* checkFeeBeforeCreatingTx and checkBeforeCreatingTx go on.
CanCreate(f) == f.destinations /\ f.previewButton # "loading" /\ f.sendButton # "loading"

resetState(f) ==
  [f EXCEPT !.busy = FALSE, !.switchEnabled = TRUE,
            !.previewButton = "normal", !.sendButton = "normal"]

\* The password is requested only for a transaction sent without preview.
RequestsPasswordWithoutPreviewOnly(f, creatingPreviewTx) ==
  /\ ~f.showForManualUnsigned
  /\ ~f.wallet.isHardware
  /\ f.wallet.encrypted
  /\ ~creatingPreviewTx

\* The condition of prepareTransaction for opening the password dialog.
RequestsPassword(f, creatingPreviewTx) ==
  /\ ~f.showForManualUnsigned
  /\ ~f.wallet.isHardware
  /\ f.wallet.encrypted
  /\ (~creatingPreviewTx \/ f.wallet.bip44)

\* createTransaction up to the call of the service; password: a password
\* dialog was given.
createTransaction(f, creatingPreviewTx, password) ==
  [showBusy(f, creatingPreviewTx) EXCEPT
     !.stage = "creating",
     !.creatingPreviewTx = creatingPreviewTx,
     !.request = [made |-> TRUE,
                  unsigned |-> f.showForManualUnsigned \/ (~f.wallet.bip44 /\ creatingPreviewTx),
                  password |-> password]]

\* prepareTransaction: the password dialog, the check of the hardware wallet
\* or createTransaction at once.
prepareTransaction(f, creatingPreviewTx) ==
  LET f0 == [f EXCEPT !.msgBar = "none", !.previewButton = "normal", !.sendButton = "normal",
                      !.creatingPreviewTx = creatingPreviewTx]
  IN IF RequestsPassword(f0, creatingPreviewTx)
     THEN [f0 EXCEPT !.stage = "password", !.passwordDialog = TRUE]
     ELSE IF creatingPreviewTx \/ f0.showForManualUnsigned \/ ~f0.wallet.isHardware
     THEN createTransaction(f0, creatingPreviewTx, FALSE)
     ELSE [showBusy(f0, creatingPreviewTx) EXCEPT !.stage = "hwCheck"]

\* spendingService.createTransaction(...) delivered the transaction.
transactionCreated(f) ==
  LET note == Trim(f.note)
      f0 == [f EXCEPT !.passwordDialog = FALSE, !.transactionNote = note]
  IN IF ~f.creatingPreviewTx
     THEN IF ~f.showForManualUnsigned
          THEN [f0 EXCEPT !.stage = "injecting"]
          ELSE [f0 EXCEPT !.stage = "copyRawTx"]
     ELSE [f0 EXCEPT !.submitted = TRUE, !.busy = FALSE,
                     !.switchEnabled = TRUE, !.stage = "idle", !.outcome = "preview"]

\* The dialog with the raw transaction was closed, and the user answered
\* whether the form should be cleaned.
rawTxDialogClosed(f, confirmationResult) ==
  LET f0 == [resetState(f) EXCEPT !.stage = "idle", !.outcome = "rawTx"]
  IN IF confirmationResult THEN [resetForm(f0) EXCEPT !.msgBar = "done"] ELSE f0

\* The handler treating a note that was not saved as a failure.
injectedNoteFailureAsError(f, noteSaved) ==
  IF f.transactionNote # <<>> /\ ~noteSaved
  THEN [showError(f) EXCEPT !.stage = "idle", !.outcome = "error"]
  ELSE [showSuccess(f, TRUE) EXCEPT !.stage = "idle", !.outcome = "sent"]

\* spendingService.injectTransaction(transaction.encoded, note) delivered noteSaved.
injected(f, noteSaved) ==
  IF f.transactionNote # <<>> /\ ~noteSaved
  THEN [showSuccess([f EXCEPT !.msgBar = "warning"], FALSE)
          EXCEPT !.stage = "idle", !.outcome = "noteNotSaved"]
  ELSE [showSuccess(f, TRUE) EXCEPT !.stage = "idle", !.outcome = "sent"]

\* createTransaction, injectTransaction or the check of the hardware wallet
\* failed; a password dialog stays open, showing the error.
failed(f) ==
  [showError(f) EXCEPT !.stage = IF f.passwordDialog THEN "password" ELSE "idle",
                       !.outcome = "error"]

SendFormInit ==
  /\ operatorClass = "balance"
  /\ currentCoin \in Coins
  /\ bal = NewBalanceOperator(currentCoin)
  /\ bc = NewBlockchainOperator(currentCoin)
  /\ node = NewNodeOperator(currentCoin)
  /\ walletsService = {}
  /\ lastStep = [name |-> "constructor", sub |-> 0, current |-> TRUE]
  /\ reconcile = None
  /\ services = NewServices
  /\ sendForm \in { [NewSendForm EXCEPT !.wallet = wallet] : wallet \in Wallets }
  /\ feeForm = NewFeeForm(FALSE)

SendFormUnchanged ==
  UNCHANGED <<operatorClass, currentCoin, bal, bc, node, walletsService, lastStep, reconcile,
              services, feeForm>>

UserEdits(note, destinations) ==
  /\ sendForm.stage = "idle"
  /\ ~sendForm.busy
  /\ ~sendForm.submitted
  /\ sendForm' = [sendForm EXCEPT !.note = note, !.destinations = destinations]
  /\ SendFormUnchanged

\* changeFormType: the user changes the mode of the form (and confirms);
\* not while a dialog is open.
ChangeFormType(showForManualUnsigned) ==
  /\ sendForm.stage \in {"idle", "hwCheck", "creating", "injecting"}
  /\ ~sendForm.passwordDialog
  /\ ~sendForm.submitted
  /\ sendForm' = [sendForm EXCEPT !.showForManualUnsigned = showForManualUnsigned]
  /\ SendFormUnchanged

ButtonPressed(creatingPreviewTx) ==
  /\ sendForm.stage = "idle"
  /\ ~sendForm.busy
  /\ ~sendForm.submitted
  /\ CanCreate(sendForm)
  /\ sendForm' = prepareTransaction(sendForm, creatingPreviewTx)
  /\ SendFormUnchanged

\* The user submits the password: createTransaction(creatingPreviewTx, passwordDialog).
PasswordSubmitted ==
  /\ sendForm.stage = "password"
  /\ sendForm' = createTransaction(sendForm, sendForm.creatingPreviewTx, TRUE)
  /\ SendFormUnchanged

\* The user closes the password dialog.
PasswordDialogCloses ==
  /\ sendForm.stage = "password"
  /\ sendForm' = [sendForm EXCEPT !.stage = "idle", !.passwordDialog = FALSE]
  /\ SendFormUnchanged

\* checkIfCorrectHwConnected answers.
HwCheckSucceeds ==
  /\ sendForm.stage = "hwCheck"
  /\ sendForm' = createTransaction(sendForm, sendForm.creatingPreviewTx, FALSE)
  /\ SendFormUnchanged

HwCheckFails ==
  /\ sendForm.stage = "hwCheck"
  /\ sendForm' = failed(sendForm)
  /\ SendFormUnchanged

RawTxDialogCloses(confirmationResult) ==
  /\ sendForm.stage = "copyRawTx"
  /\ sendForm' = rawTxDialogClosed(sendForm, confirmationResult)
  /\ SendFormUnchanged

CreateTransactionSucceeds ==
  /\ sendForm.stage = "creating"
  /\ sendForm' = transactionCreated(sendForm)
  /\ SendFormUnchanged

CreateTransactionFails ==
  /\ sendForm.stage = "creating"
  /\ sendForm' = failed(sendForm)
  /\ SendFormUnchanged

InjectTransactionSucceeds(noteSaved) ==
  /\ sendForm.stage = "injecting"
  /\ sendForm' = injected(sendForm, noteSaved)
  /\ SendFormUnchanged

InjectTransactionFails ==
  /\ sendForm.stage = "injecting"
  /\ sendForm' = failed(sendForm)
  /\ SendFormUnchanged

SendButtonTimer ==
  /\ sendForm.resetTimer
  /\ sendForm' = [sendForm EXCEPT !.resetTimer = FALSE, !.sendButton = "normal"]
  /\ SendFormUnchanged

SendFormNext ==
  \/ \E note \in Notes, destinations \in BOOLEAN : UserEdits(note, destinations)
  \/ \E showForManualUnsigned \in BOOLEAN : ChangeFormType(showForManualUnsigned)
  \/ \E creatingPreviewTx \in BOOLEAN : ButtonPressed(creatingPreviewTx)
  \/ PasswordSubmitted
  \/ PasswordDialogCloses
  \/ HwCheckSucceeds
  \/ HwCheckFails
  \/ \E confirmationResult \in BOOLEAN : RawTxDialogCloses(confirmationResult)
  \/ CreateTransactionSucceeds
  \/ CreateTransactionFails
  \/ \E noteSaved \in BOOLEAN : InjectTransactionSucceeds(noteSaved)
  \/ InjectTransactionFails
  \/ SendButtonTimer

SendFormSpec == SendFormInit /\ [][SendFormNext]_vars

-----------------------------------------------------------------------------
(* The services: handlers, calls and the coin change *)

\* The handler a service subscribed with, keeping the first operator it got.
OperatorsHandlerKeepingFirst(operator, operators) ==
  IF operator.kind = "operator" THEN operator
  ELSE IF operators.kind = "operator" THEN operators ELSE NoOperator("null")

\* The handler a service subscribed to currentOperators with: the value of
\* its operator field after the stream emitted operators.
OperatorsHandler(operator, operators) ==
  IF operators.kind = "operator" THEN operators ELSE NoOperator("null")

\* currentOperators emits a value: the handlers of the subscribed services run.
Emit(s, operators) ==
  [s EXCEPT
    !.currentOperators = operators,
    !.spendingService.operator = OperatorsHandler(@, operators),
    !.blockchainService.operator =
       IF s.blockchainService.initialized THEN OperatorsHandler(@, operators) ELSE @]

\* Coin change, first step: the registry builds the bundle of the new coin.
RegistryBuilds(s) ==
  [s EXCEPT !.bundles = @ + 1, !.live = @ \cup {s.bundles + 1}, !.phase = "built"]

\* Coin change, second step: the new bundle is published.
RegistryPublishes(s) == [Emit(s, OperatorOf(s.bundles)) EXCEPT !.phase = "published"]

\* Coin change, last step: the previous bundle is disposed.
RegistryDisposesPrevious(s) == [s EXCEPT !.live = {s.bundles}, !.phase = "idle"]

\* The stream emits null (no bundle during the switchover).
RegistryPublishesNull(s) == Emit(s, NoOperator("null"))

\* BlockchainService.initialize(): the stream replays its latest value, if any.
initialize(s) ==
  [s EXCEPT
    !.blockchainService.initialized = TRUE,
    !.blockchainService.operator =
       IF s.currentOperators.kind = "undefined" THEN @
       ELSE OperatorsHandler(@, s.currentOperators)]

\* A method of a service: return this.operator.method(...).  Reading a
\* property of null or undefined raises a TypeError.
ServiceCall(s, service, method) ==
  LET operator == s[service].operator IN
  IF operator.kind # "operator"
  THEN [s EXCEPT !.lastCall = [service |-> service, method |-> method,
                               generation |-> 0, thrown |-> TRUE]]
  ELSE [s EXCEPT !.lastCall = [service |-> service, method |-> method,
                               generation |-> operator.generation, thrown |-> FALSE],
                 !.calls = @ \cup {[service |-> service, method |-> method,
                                    generation |-> operator.generation]}]

\* The Observable a call returned completes.
CallCompletes(s, call) == [s EXCEPT !.calls = @ \ {call}]

ServicesInit ==
  /\ operatorClass = "balance"
  /\ currentCoin \in Coins
  /\ bal = NewBalanceOperator(currentCoin)
  /\ bc = NewBlockchainOperator(currentCoin)
  /\ node = NewNodeOperator(currentCoin)
  /\ walletsService = {}
  /\ lastStep = [name |-> "constructor", sub |-> 0, current |-> TRUE]
  /\ reconcile = None
  /\ services = NewServices
  /\ sendForm = NewSendForm
  /\ feeForm = NewFeeForm(FALSE)

ServicesUnchanged ==
  UNCHANGED <<operatorClass, currentCoin, bal, bc, node, walletsService, lastStep, reconcile,
              sendForm, feeForm>>

CoinChangeBegins ==
  /\ services.phase = "idle"
  /\ services.bundles < MaxGenerations
  /\ services' = RegistryBuilds(services)
  /\ ServicesUnchanged

CoinChangePublishes ==
  /\ services.phase = "built"
  /\ services' = RegistryPublishes(services)
  /\ ServicesUnchanged

CoinChangeEnds ==
  /\ services.phase = "published"
  /\ services' = RegistryDisposesPrevious(services)
  /\ ServicesUnchanged

NullPublished ==
  /\ services.phase = "idle"
  /\ services.currentOperators.kind # "null"
  /\ services' = RegistryPublishesNull(services)
  /\ ServicesUnchanged

BlockchainServiceInitialize ==
  /\ ~services.blockchainService.initialized
  /\ services' = initialize(services)
  /\ ServicesUnchanged

BlockchainServiceCalled(method) ==
  /\ Cardinality(services.calls) < MaxCalls
  /\ services' = ServiceCall(services, "blockchainService", method)
  /\ ServicesUnchanged

SpendingServiceCalled(method) ==
  /\ Cardinality(services.calls) < MaxCalls
  /\ services' = ServiceCall(services, "spendingService", method)
  /\ ServicesUnchanged

CallReturns(call) ==
  /\ call \in services.calls
  /\ services' = CallCompletes(services, call)
  /\ ServicesUnchanged

ServicesNext ==
  \/ CoinChangeBegins
  \/ CoinChangePublishes
  \/ CoinChangeEnds
  \/ NullPublished
  \/ BlockchainServiceInitialize
  \/ \E method \in BlockchainMethods : BlockchainServiceCalled(method)
  \/ \E method \in SpendingMethods : SpendingServiceCalled(method)
  \/ \E call \in services.calls : CallReturns(call)

ServicesSpec == ServicesInit /\ [][ServicesNext]_vars

-----------------------------------------------------------------------------
(* SendCoinsFormComponent: steps of the fee fields *)

FeeFormInit ==
  /\ operatorClass = "balance"
  /\ currentCoin = [isLocal |-> TRUE, confirmationsNeeded |-> 1]
  /\ bal = NewBalanceOperator(currentCoin)
  /\ bc = NewBlockchainOperator(currentCoin)
  /\ node = NewNodeOperator(currentCoin)
  /\ walletsService = {}
  /\ lastStep = [name |-> "constructor", sub |-> 0, current |-> TRUE]
  /\ reconcile = None
  /\ services = NewServices
  /\ sendForm = NewSendForm
  /\ feeForm \in { NewFeeForm(coinHasHours) : coinHasHours \in BOOLEAN }

FeeFormUnchanged ==
  UNCHANGED <<operatorClass, currentCoin, bal, bc, node, walletsService, lastStep, reconcile,
              services, sendForm>>

\* The node's recommended fees arrive (a coin with hours does not ask).
FeesArrive(fees) ==
  /\ ~feeForm.coinHasHours
  /\ feeForm' = getRecommendedFees(feeForm, fees)
  /\ FeeFormUnchanged

\* The user types in the fee field: the custom fee type is selected.
UserEntersFee(fee) ==
  /\ feeForm' = useSelectedFee([feeForm EXCEPT !.fee = fee, !.feeType = CustomFeeType,
                                               !.selected = FALSE])
  /\ FeeFormUnchanged

\* The user selects a fee type: the fee field takes the recommended fee.
UserSelectsFeeType(feeType) ==
  /\ feeForm' = useSelectedFee([feeForm EXCEPT !.feeType = feeType, !.selected = FALSE])
  /\ FeeFormUnchanged

\* The sources and destinations become valid or invalid.
SubformsChange(valid) ==
  /\ feeForm' = [feeForm EXCEPT !.subformsValid = valid, !.selected = FALSE]
  /\ FeeFormUnchanged

FeeFormNext ==
  \/ \E fees \in RecommendedFees : FeesArrive(fees)
  \/ \E fee \in FeeEntries : UserEntersFee(fee)
  \/ \E feeType \in 0..CustomFeeType : UserSelectsFeeType(feeType)
  \/ \E valid \in BOOLEAN : SubformsChange(valid)

FeeFormSpec == FeeFormInit /\ [][FeeFormNext]_vars

-----------------------------------------------------------------------------
(* Steps *)

\* A handler starts: nothing was emitted or raised by it yet.
Begin(o) ==
  IF "replaced" \in DOMAIN o
  THEN [o EXCEPT !.emitted = NoEmission, !.thrown = FALSE, !.replaced = FALSE]
  ELSE [o EXCEPT !.emitted = NoEmission, !.thrown = FALSE]

\* Observation of a step: the handler, the subscription it ran on and whether
\* that subscription was the one held by the operator's subscription field.
Step(name, id, current) == [name |-> name, sub |-> id, current |-> current]

\* dispose(), or dispose() called again right after dispose().
DisposeStep == IF lastStep.name \in {"dispose", "disposeAgain"} THEN "disposeAgain" ELSE "dispose"

IsBalance == operatorClass = "balance"
IsBlockchain == operatorClass = "blockchain"
IsNode == operatorClass = "node"

\* The registry publishes the first non-null operator set.
BalOperatorsPublished ==
  /\ IsBalance
  /\ bal.operatorsSubscription = "subscribed"
  /\ bal' = [Begin(bal) EXCEPT !.operatorsSubscription = "complete",
                               !.walletsSubscription = "subscribed"]
  /\ lastStep' = Step("operatorsPublished", 0, TRUE)
  /\ UNCHANGED <<operatorClass, currentCoin, bc, node, walletsService, reconcile, services, sendForm, feeForm>>

\* currentWallets emits a wallet list.
BalWalletsEmit(wallets) ==
  /\ IsBalance
  /\ wallets \in walletsService
  /\ bal.walletsSubscription = "subscribed"
  /\ CanStart(bal)
  /\ bal' = startDataRefreshSubscription(
               [Begin(bal) EXCEPT !.savedWalletsList = Some(wallets)], 0, TRUE)
  /\ lastStep' = Step("walletsEmit", 0, TRUE)
  /\ UNCHANGED <<operatorClass, currentCoin, bc, node, walletsService, reconcile, services, sendForm, feeForm>>

\* refreshBalance()
BalRefreshBalance ==
  /\ IsBalance
  /\ CanStart(bal)
  /\ bal' = refreshBalance(Begin(bal))
  /\ lastStep' = Step("refreshBalance", 0, TRUE)
  /\ UNCHANGED <<operatorClass, currentCoin, bc, node, walletsService, reconcile, services, sendForm, feeForm>>

\* dispose()
BalDispose ==
  /\ IsBalance
  /\ bal' = dispose(Begin(bal))
  /\ lastStep' = Step(DisposeStep, 0, TRUE)
  /\ UNCHANGED <<operatorClass, currentCoin, bc, node, walletsService, reconcile, services, sendForm, feeForm>>

\* An observer can call dispose() from inside a notification of the subject.
CanReenter(o, subject, reDispose) == reDispose => subject \notin o.completed

\* The delay of a subscription elapsed: the quick pass if asked for, then the
\* network pass starts (and completes at once for an empty wallet list).
BalTimerFires(id, reDispose) ==
  /\ IsBalance
  /\ bal.subscriptions[id].phase = "timer"
  /\ LET b == afterDelay(Begin(bal), id)
         completes == Len(Get(bal.savedWalletsList)) = 0
     IN /\ IF completes THEN CanReenter(b, "hadErrorRefreshingBalance", reDispose)
                        ELSE ~reDispose
        /\ bal' = startNetworkPass(b, id, reDispose)
              /\ lastStep' = Step(IF completes THEN "success" ELSE "timer", id,
                            id = bal.dataRefreshSubscription)
  /\ UNCHANGED <<operatorClass, currentCoin, bc, node, walletsService, reconcile, services, sendForm, feeForm>>

\* The node answers the request in flight of wallet i of a running network pass.
BalNodeReplies(id, i, reply, reDispose) ==
  /\ IsBalance
  /\ bal.subscriptions[id].phase = "network"
  /\ i \in DOMAIN bal.subscriptions[id].fetch
  /\ LET fetch == bal.subscriptions[id].fetch
         after == [fetch EXCEPT ![i] = ReplyFetch(fetch[i], reply)]
         completes == AllDone(after)
     IN /\ fetch[i].step # "done"
        /\ reply \in (IF fetch[i].step = "blockNumber" THEN HeightReplies ELSE BalanceReplies)
        /\ IF completes THEN CanReenter(bal, "hadErrorRefreshingBalance", reDispose)
                        ELSE ~reDispose
        /\ bal' = networkReply(Begin(bal), id, i, reply, reDispose)
        /\ lastStep' = Step(IF completes THEN "success" ELSE "reply", id,
                            id = bal.dataRefreshSubscription)
  /\ UNCHANGED <<operatorClass, currentCoin, bc, node, walletsService, reconcile, services, sendForm, feeForm>>

\* A request in flight of a running network pass fails.
BalNodeFails(id, i, reDispose) ==
  /\ IsBalance
  /\ bal.subscriptions[id].phase = "network"
  /\ i \in DOMAIN bal.subscriptions[id].fetch
  /\ bal.subscriptions[id].fetch[i].step # "done"
  /\ CanReenter(bal, "hadErrorRefreshingBalance", reDispose)
  /\ bal' = networkError(Begin(bal), id, reDispose)
  /\ lastStep' = Step("failure", id, id = bal.dataRefreshSubscription)
  /\ UNCHANGED <<operatorClass, currentCoin, bc, node, walletsService, reconcile, services, sendForm, feeForm>>

\* A reply to a request of a closed subscription arrives: nobody listens.
DropReply(o) == [o EXCEPT !.staleReplies = @ - 1]

BalStaleReply ==
  /\ IsBalance
  /\ bal.staleReplies > 0
  /\ bal' = DropReply(Begin(bal))
  /\ lastStep' = Step("staleReply", 0, FALSE)
  /\ UNCHANGED <<operatorClass, currentCoin, bc, node, walletsService, reconcile, services, sendForm, feeForm>>

-----------------------------------------------------------------------------

BcOperatorsPublished ==
  /\ IsBlockchain
  /\ bc.operatorsSubscription = "subscribed"
  /\ bc' = blockchainStartDataRefreshSubscription(
              [Begin(bc) EXCEPT !.operatorsSubscription = "complete",
                                !.balanceAndOutputsOperator = "balanceAndOutputsOperator"], 0)
  /\ lastStep' = Step("operatorsPublished", 0, TRUE)
  /\ UNCHANGED <<operatorClass, currentCoin, bal, node, walletsService, reconcile, services, sendForm, feeForm>>

BcDispose ==
  /\ IsBlockchain
  /\ bc' = blockchainDispose(Begin(bc))
  /\ lastStep' = Step(DisposeStep, 0, TRUE)
  /\ UNCHANGED <<operatorClass, currentCoin, bal, node, walletsService, reconcile, services, sendForm, feeForm>>

\* The delay elapsed: eth_syncing is sent.
BcTimerFires(id) ==
  /\ IsBlockchain
  /\ bc.subscriptions[id].phase = "timer"
  /\ bc' = [Begin(bc) EXCEPT !.subscriptions[id].phase = "query"]
  /\ lastStep' = Step("timer", id, id = bc.dataSubscription)
  /\ UNCHANGED <<operatorClass, currentCoin, bal, node, walletsService, reconcile, services, sendForm, feeForm>>

BcNodeReplies(id, result, reDispose) ==
  /\ IsBlockchain
  /\ bc.subscriptions[id].phase = "query"
  /\ CanReenter(bc, "progress", reDispose)
  /\ bc' = blockchainOnResult(Finished(Begin(bc), id), result, reDispose)
  /\ lastStep' = Step("success", id, id = bc.dataSubscription)
  /\ UNCHANGED <<operatorClass, currentCoin, bal, node, walletsService, reconcile, services, sendForm, feeForm>>

BcNodeFails(id) ==
  /\ IsBlockchain
  /\ bc.subscriptions[id].phase = "query"
  /\ bc' = blockchainOnError(Finished(Begin(bc), id))
  /\ lastStep' = Step("failure", id, id = bc.dataSubscription)
  /\ UNCHANGED <<operatorClass, currentCoin, bal, node, walletsService, reconcile, services, sendForm, feeForm>>

BcStaleReply ==
  /\ IsBlockchain
  /\ bc.staleReplies > 0
  /\ bc' = DropReply(Begin(bc))
  /\ lastStep' = Step("staleReply", 0, FALSE)
  /\ UNCHANGED <<operatorClass, currentCoin, bal, node, walletsService, reconcile, services, sendForm, feeForm>>

-----------------------------------------------------------------------------

NodeDispose ==
  /\ IsNode
  /\ node' = nodeDispose(Begin(node))
  /\ lastStep' = Step(DisposeStep, 0, TRUE)
  /\ UNCHANGED <<operatorClass, currentCoin, bal, bc, walletsService, reconcile, services, sendForm, feeForm>>

\* The delay elapsed: web3_clientVersion is sent.
NodeTimerFires(id) ==
  /\ IsNode
  /\ node.subscriptions[id].phase = "timer"
  /\ node' = [Begin(node) EXCEPT !.subscriptions[id].phase = "query"]
  /\ lastStep' = Step("timer", id, id = node.basicInfoSubscription)
  /\ UNCHANGED <<operatorClass, currentCoin, bal, bc, walletsService, reconcile, services, sendForm, feeForm>>

NodeReplies(id, response) ==
  /\ IsNode
  /\ node.subscriptions[id].phase = "query"
  /\ node' = nodeOnResponse(Finished(Begin(node), id), response)
  /\ lastStep' = Step("success", id, id = node.basicInfoSubscription)
  /\ UNCHANGED <<operatorClass, currentCoin, bal, bc, walletsService, reconcile, services, sendForm, feeForm>>

NodeFails(id) ==
  /\ IsNode
  /\ node.subscriptions[id].phase = "query"
  /\ node' = nodeOnError(Finished(Begin(node), id), currentCoin)
  /\ lastStep' = Step("failure", id, id = node.basicInfoSubscription)
  /\ UNCHANGED <<operatorClass, currentCoin, bal, bc, walletsService, reconcile, services, sendForm, feeForm>>

NodeStaleReply ==
  /\ IsNode
  /\ node.staleReplies > 0
  /\ node' = DropReply(Begin(node))
  /\ lastStep' = Step("staleReply", 0, FALSE)
  /\ UNCHANGED <<operatorClass, currentCoin, bal, bc, walletsService, reconcile, services, sendForm, feeForm>>

-----------------------------------------------------------------------------

OperatorClasses == {"balance", "blockchain", "node"}

Init ==
  /\ operatorClass \in OperatorClasses
  /\ currentCoin \in Coins
  /\ bal = NewBalanceOperator(currentCoin)
  /\ bc = NewBlockchainOperator(currentCoin)
  /\ node = NewNodeOperator(currentCoin)
  /\ walletsService \in (IF IsBalance THEN Sessions ELSE {{}})
  /\ lastStep = Step("constructor", 0, TRUE)
  /\ reconcile = None
  /\ services = NewServices
  /\ sendForm = NewSendForm
  /\ feeForm = NewFeeForm(FALSE)

Next ==
  \/ BalOperatorsPublished
  \/ \E wallets \in WalletLists : BalWalletsEmit(wallets)
  \/ BalRefreshBalance
  \/ BalDispose
  \/ \E id \in SubIds, reDispose \in BOOLEAN : BalTimerFires(id, reDispose)
  \/ \E id \in SubIds, i \in 1..2, reply \in HeightReplies \cup BalanceReplies, reDispose \in BOOLEAN :
       BalNodeReplies(id, i, reply, reDispose)
  \/ \E id \in SubIds, i \in 1..2, reDispose \in BOOLEAN : BalNodeFails(id, i, reDispose)
  \/ BalStaleReply
  \/ BcOperatorsPublished
  \/ BcDispose
  \/ \E id \in SubIds : BcTimerFires(id)
  \/ \E id \in SubIds, result \in SyncingReplies, reDispose \in BOOLEAN : BcNodeReplies(id, result, reDispose)
  \/ \E id \in SubIds : BcNodeFails(id)
  \/ BcStaleReply
  \/ NodeDispose
  \/ \E id \in SubIds : NodeTimerFires(id)
  \/ \E id \in SubIds, response \in VersionReplies : NodeReplies(id, response)
  \/ \E id \in SubIds : NodeFails(id)
  \/ NodeStaleReply

Spec == Init /\ [][Next]_vars

-----------------------------------------------------------------------------
(* The list comparison of refreshBalances on its own: every pair of a        *)
(* published list and a newly computed list of the wallet lists of Sessions. *)

\* The most addresses a wallet of Sessions has; the coins of a wallet are at
\* most the sum of that many address balances.
MaxAddresses ==
  LET counts == UNION { { Len(wallets[i].addresses) : i \in DOMAIN wallets } : wallets \in WalletLists } IN
  CHOOSE n \in counts : \A m \in counts : m <= n
MaxCoins == MaxAddresses * MaxWei

\* The addresses of a wallet with every combination of balances.
AddressesWithBalance(addresses) ==
  { [j \in DOMAIN addresses |-> [address |-> addresses[j], coins |-> c[j]]] :
      c \in [DOMAIN addresses -> 0..MaxWei] }

AddressCoins(addresses) == SumSeq([j \in DOMAIN addresses |-> addresses[j].coins])

\* Wallets a network pass computes: the coins are the sum of the addresses' coins.
ComputedWallet(w) ==
  { [id |-> w.id, coins |-> AddressCoins(a), addresses |-> a] :
      a \in AddressesWithBalance(w.addresses) }

\* Wallets of a published list: a quick pass fills the coins with the saved
\* sum of the wallet and the coins of the addresses the wallet still has.
PublishedWallet(w) ==
  { [id |-> w.id, coins |-> c, addresses |-> a] :
      <<c, a>> \in { q \in (0..MaxCoins) \X AddressesWithBalance(w.addresses) :
                      q[1] >= AddressCoins(q[2]) } }

ComputedLists ==
  UNION { { l \in [DOMAIN wallets -> UNION { ComputedWallet(wallets[i]) : i \in DOMAIN wallets }] :
              \A i \in DOMAIN wallets : l[i] \in ComputedWallet(wallets[i]) } :
          wallets \in WalletLists }

PublishedLists ==
  UNION { { l \in [DOMAIN wallets -> UNION { PublishedWallet(wallets[i]) : i \in DOMAIN wallets }] :
              \A i \in DOMAIN wallets : l[i] \in PublishedWallet(wallets[i]) } :
          wallets \in WalletLists }

\* The comparison to make: this.walletsWithBalanceList, temporalWallets and
\* forceQuickCompleteArrayUpdate; result is undefined until it is made.
Comparisons ==
  [ published : {None} \cup { Some(l) : l \in PublishedLists },
    temporalWallets : ComputedLists,
    quick : BOOLEAN,
    result : {None} ]

ReconcileInit ==
  /\ operatorClass = "balance"
  /\ currentCoin \in Coins
  /\ bal = NewBalanceOperator(currentCoin)
  /\ bc = NewBlockchainOperator(currentCoin)
  /\ node = NewNodeOperator(currentCoin)
  /\ walletsService = {}
  /\ lastStep = Step("constructor", 0, TRUE)
  /\ reconcile \in { Some(c) : c \in Comparisons }
  /\ services = NewServices
  /\ sendForm = NewSendForm
  /\ feeForm = NewFeeForm(FALSE)

\* The comparison is made.
ReconcileApply ==
  /\ Get(reconcile).result = None
  /\ reconcile' = Some([Get(reconcile) EXCEPT !.result =
         Some(Reconcile(Get(reconcile).published, Get(reconcile).temporalWallets, Get(reconcile).quick))])
  /\ UNCHANGED <<operatorClass, currentCoin, bal, bc, node, walletsService, lastStep, services, sendForm, feeForm>>

ReconcileSpec == ReconcileInit /\ [][ReconcileApply]_vars

-----------------------------------------------------------------------------
(* Properties of EthBalanceAndOutputsOperator's refresh chains *)

\* What the operator publishes: the list, the cache and the flags.
Published(b) ==
  [ walletsWithBalanceList |-> b.walletsWithBalanceList,
    savedBalanceData |-> b.savedBalanceData,
    lastBalancesUpdateTime |-> b.lastBalancesUpdateTime,
    hasPendingTransactions |-> b.hasPendingTransactions,
    firstFullUpdateMade |-> b.firstFullUpdateMade,
    hadErrorRefreshingBalance |-> b.hadErrorRefreshingBalance,
    refreshingBalance |-> b.refreshingBalance ]

\* Handlers that run on a subscription of a refresh chain.
ChainHandlers == {"timer", "reply", "success", "failure"}

\* C1: at most one refresh chain (a pending delay timer or a running pass) is
\* open at any moment, and it is the one held by dataRefreshSubscription: a
\* refreshBalance() call or a wallet list emission closes the chain that was
\* scheduled or running before it opens the new one.
C1_AtMostOneChain ==
  IsBalance =>
    /\ Cardinality(Active(bal)) <= 1
    /\ Active(bal) \subseteq {bal.dataRefreshSubscription}

\* refreshBalance() was called while a network pass had a request in flight:
\* the pass was closed and only the new timer is open.
C1_Witness ==
  /\ IsBalance
  /\ lastStep.name = "refreshBalance"
  /\ bal.staleReplies > 0
  /\ Cardinality(Active(bal)) = 1
  /\ bal.subscriptions[bal.dataRefreshSubscription].phase = "timer"

\* C2: a chain that was replaced by a later refreshBalance() (or wallet list
\* emission) never runs a handler again - timer, reply, success with its
\* reconciliation, or failure run only on the chain started last - and a node
\* response that arrives for a closed chain changes nothing of what is
\* published (list, savedBalanceData, flags).
C2_CancelledChainIsSilent ==
  [][IsBalance =>
       /\ lastStep'.name \in ChainHandlers => lastStep'.current
       /\ lastStep'.name = "staleReply" =>
            /\ Published(bal') = Published(bal)
            /\ bal'.emitted = NoEmission
            /\ Active(bal') = Active(bal)]_vars

\* A response of a closed chain arrives while the network pass of the chain
\* that replaced it is running.
C2_Witness ==
  /\ IsBalance
  /\ lastStep.name = "staleReply"
  /\ bal.dataRefreshSubscription # 0
  /\ bal.subscriptions[bal.dataRefreshSubscription].phase = "network"

\* What a network pass changes only when it completes.
Kept(b, after) ==
  /\ after.walletsWithBalanceList = b.walletsWithBalanceList
  /\ ~after.replaced
  /\ after.savedBalanceData = b.savedBalanceData
  /\ after.hasPendingTransactions = b.hasPendingTransactions
  /\ after.lastBalancesUpdateTime = b.lastBalancesUpdateTime
  /\ after.firstFullUpdateMade = b.firstFullUpdateMade
  /\ \A subject \in {"walletsWithBalance", "hasPendingTransactions",
                      "lastBalancesUpdateTime", "firstFullUpdateMade"} :
        after.emitted[subject] = 0

\* Exactly one chain is scheduled: a timer of the given delay, network pass only.
NextPassScheduled(b, delayMs) ==
  /\ Active(b) = {b.dataRefreshSubscription}
  /\ b.subscriptions[b.dataRefreshSubscription] =
       [FreeSub EXCEPT !.phase = "timer", !.delayMs = delayMs]

NetworkPassRunning(b) == \E id \in SubIds : b.subscriptions[id].phase = "network"

\* C7: a network pass that fails sets hadErrorRefreshingBalance and schedules
\* one network pass after errorUpdatePeriod; from the start of the pass to its
\* failure no step (a reply of another wallet included) changes the published
\* list, savedBalanceData, hasPendingTransactions, lastBalancesUpdateTime or
\* firstFullUpdateMade.
C7_FailedPassKeepsData ==
  [][IsBalance =>
       /\ lastStep'.name = "failure" =>
            /\ bal'.hadErrorRefreshingBalance
            /\ NextPassScheduled(bal', BalanceErrorUpdatePeriod(currentCoin))
       /\ NetworkPassRunning(bal) /\ lastStep'.name # "success" => Kept(bal, bal')]_vars

\* After a successful pass, a later pass retrieved the balance of one wallet
\* (an entry of temporalSavedBalanceData that differs from the saved one) and
\* then failed on the other wallet.
C7_Witness ==
  /\ IsBalance
  /\ lastStep.name = "failure"
  /\ bal.hadErrorRefreshingBalance
  /\ bal.firstFullUpdateMade
  /\ \E id \in DOMAIN bal.temporalSavedBalanceData \cap DOMAIN bal.savedBalanceData :
        bal.temporalSavedBalanceData[id] # bal.savedBalanceData[id]

\* The balances a completing pass retrieved, by wallet id: those of the
\* wallets already retrieved and that of the wallet whose last reply arrives.
RetrievedBy(fetch, saved) ==
  /\ DOMAIN saved = { fetch[k].wallet.id : k \in DOMAIN fetch }
  /\ \A k \in DOMAIN fetch :
        IF fetch[k].step = "done"
        THEN saved[fetch[k].wallet.id] = WalletBalanceOf(fetch[k].wallet, fetch[k].currentElements)
        ELSE \E reply \in BalanceReplies :
               saved[fetch[k].wallet.id] =
                 WalletBalanceOf(fetch[k].wallet, ReplyFetch(fetch[k], reply).currentElements)

\* C8: after a successful network pass hadErrorRefreshingBalance and
\* refreshingBalance are false, firstFullUpdateMade is true, savedBalanceData
\* holds exactly the balances the pass retrieved for its wallets, and exactly
\* one chain is scheduled: after updatePeriod, network pass only.
C8_SuccessfulPass ==
  [][IsBalance /\ lastStep'.name = "success" =>
       /\ ~bal'.hadErrorRefreshingBalance
       /\ ~bal'.refreshingBalance
       /\ bal'.firstFullUpdateMade
       /\ RetrievedBy(bal.subscriptions[lastStep'.sub].fetch, bal'.savedBalanceData)
       /\ NextPassScheduled(bal', BalanceUpdatePeriod(currentCoin))]_vars

\* A pass over two wallets completed and saved a balance for each.
C8_Witness ==
  /\ IsBalance
  /\ lastStep.name = "success"
  /\ DOMAIN bal.savedBalanceData = {"w1", "w2"}
  /\ bal.savedBalanceData["w1"].predicted > 0
  /\ bal.savedBalanceData["w2"].predicted = 0

-----------------------------------------------------------------------------
(* Properties of dispose() *)

\* C3: once EthBalanceAndOutputsOperator is disposed, no event (late response,
\* timer, wallet list emission, refreshBalance()) opens a refresh chain or
\* sends a node request, and the list, savedBalanceData and the flags keep
\* the values they had.
C3_DisposedIsInert ==
  [][IsBalance /\ bal.disposed =>
       /\ Active(bal') = {}
       /\ Published(bal') = Published(bal)]_vars

\* C4: once EthBlockchainOperator is disposed - before the operator set is
\* ready, with the timer pending, with a query in flight or from inside the
\* response handler - no poll is scheduled, no eth_syncing query is in flight
\* and no ProgressEvent is emitted.
C4_NoPollAfterDispose ==
  [][IsBlockchain /\ bc'.disposed =>
       /\ Active(bc') = {}
       /\ bc.disposed => bc'.emitted["progress"] = 0]_vars

\* C5: after dispose() every observable stream of the operator is completed
\* and the subscriptions to the operator set and to the wallet list are closed.
C5_DisposeCompletesStreams ==
  /\ IsBalance /\ bal.disposed =>
       /\ BalanceSubjects \subseteq bal.completed
       /\ bal.operatorsSubscription # "subscribed"
       /\ bal.walletsSubscription # "subscribed"
  /\ IsBlockchain /\ bc.disposed =>
       /\ "progress" \in bc.completed
       /\ bc.operatorsSubscription # "subscribed"
  /\ IsNode /\ node.disposed => "remoteNodeDataUpdated" \in node.completed

\* dispose() was called on a balance operator that was subscribed to the
\* wallet list and had a request of a network pass in flight.
C5_Witness ==
  /\ IsBalance
  /\ lastStep.name = "dispose"
  /\ bal.disposed
  /\ bal.walletsSubscription = "unsubscribed"
  /\ bal.staleReplies > 0

\* C6: dispose() called again right after dispose() raises no error, notifies
\* no observer and leaves every field of the operator as the first call left
\* it, for each of the three operators.
C6_DisposeIdempotent ==
  [][lastStep'.name = "disposeAgain" =>
       /\ IsBalance => bal' = Begin(bal) /\ ~bal'.thrown /\ bal'.emitted = NoEmission
       /\ IsBlockchain => bc' = Begin(bc) /\ ~bc'.thrown /\ bc'.emitted = NoEmission
       /\ IsNode => node' = Begin(node) /\ ~node'.thrown /\ node'.emitted = NoEmission]_vars

\* dispose() was called twice in a row on a balance operator that never
\* received the operator set.
C6_Witness ==
  /\ IsBalance
  /\ lastStep.name = "disposeAgain"
  /\ bal.disposed
  /\ bal.walletsSubscription = Null

-----------------------------------------------------------------------------
(* Properties of the list comparison *)

\* The comparison was made.
Compared == reconcile # None /\ Get(reconcile).result # None

\* No list was published, or the lists differ in length, or in the id of a
\* wallet at the same index.
CoarseCase(published, temporalWallets) ==
  IF published = None THEN TRUE
  ELSE IF Len(Get(published)) # Len(temporalWallets) THEN TRUE
  ELSE \E i \in DOMAIN temporalWallets : Get(published)[i].id # temporalWallets[i].id

\* C9: when no list was published, or the new list has another number of
\* wallets, or a wallet id differs at the same index, the published list
\* becomes the newly computed list object and walletsWithBalance emits once.
C9_CoarseReplace ==
  Compared =>
    LET c == Get(reconcile) IN
    CoarseCase(c.published, c.temporalWallets) =>
      /\ Get(c.result).replaced
      /\ Get(c.result).list = Some(c.temporalWallets)
      /\ Get(c.result).informs = 1

\* A network pass compared two lists of one wallet each, with different ids.
C9_Witness ==
  /\ Compared
  /\ ~Get(reconcile).quick
  /\ Get(reconcile).published # None
  /\ Len(Get(Get(reconcile).published)) = 1
  /\ Len(Get(reconcile).temporalWallets) = 1
  /\ Get(Get(reconcile).published)[1].id # Get(reconcile).temporalWallets[1].id
  /\ Get(Get(reconcile).result).replaced

\* The address fields <<i, j>> whose coins differ between two lists of the
\* same shape.
DifferentAddressCoins(old, new) ==
  { <<i, j>> \in (DOMAIN old) \X (1..MaxAddresses) :
      j \in DOMAIN old[i].addresses /\ old[i].addresses[j].coins # new[i].addresses[j].coins }

\* The lists have the same wallets with the same coins and the same
\* addresses, and the coins of exactly one address differ.
OneAddressDiffers(old, new) ==
  /\ Len(old) = Len(new)
  /\ \A i \in DOMAIN old :
        /\ old[i].id = new[i].id
        /\ old[i].coins = new[i].coins
        /\ Len(old[i].addresses) = Len(new[i].addresses)
        /\ \A j \in DOMAIN old[i].addresses :
              old[i].addresses[j].address = new[i].addresses[j].address
  /\ Cardinality(DifferentAddressCoins(old, new)) = 1

SameBalances(old, new) ==
  /\ Len(old) = Len(new)
  /\ \A i \in DOMAIN old :
        /\ old[i].id = new[i].id
        /\ old[i].coins = new[i].coins
        /\ Len(old[i].addresses) = Len(new[i].addresses)
        /\ \A j \in DOMAIN old[i].addresses :
              old[i].addresses[j].coins = new[i].addresses[j].coins

\* C11: when the list a network pass computed has the wallet count, the ids,
\* the address counts and the wallet and address coins of the published list,
\* walletsWithBalance does not emit and the published list stays the same
\* list object with unchanged contents.
C11_NoChangeNoEmission ==
  Compared =>
    LET c == Get(reconcile) IN
    (~c.quick /\ c.published # None) =>
      (SameBalances(Get(c.published), c.temporalWallets) =>
         /\ ~Get(c.result).replaced
         /\ Get(c.result).informs = 0
         /\ Get(c.result).list = c.published)

\* A network pass compared a published list of two wallets, one with coins,
\* with a computed list of the same balances.
C11_Witness ==
  /\ Compared
  /\ ~Get(reconcile).quick
  /\ Get(reconcile).published # None
  /\ SameBalances(Get(Get(reconcile).published), Get(reconcile).temporalWallets)
  /\ Len(Get(reconcile).temporalWallets) = 2
  /\ Get(reconcile).temporalWallets[1].coins > 0
  /\ Get(Get(reconcile).result).informs = 0

-----------------------------------------------------------------------------
(* Properties of the quick pass *)

\* The wallet list with the predicted balances of a cache (by wallet id, then
\* by address), and zero where the cache holds nothing.
ListFromCache(wallets, cache) ==
  [i \in DOMAIN wallets |->
    [ id |-> wallets[i].id,
      coins |-> IF wallets[i].id \in DOMAIN cache THEN cache[wallets[i].id].predicted ELSE 0,
      addresses |-> [j \in DOMAIN wallets[i].addresses |->
        [ address |-> wallets[i].addresses[j],
          coins |-> IF /\ wallets[i].id \in DOMAIN cache
                       /\ wallets[i].addresses[j] \in DOMAIN cache[wallets[i].id].addresses
                    THEN cache[wallets[i].id].addresses[wallets[i].addresses[j]].predicted
                    ELSE 0 ]] ]]

\* The step to take is the timer handler of a chain that runs the quick pass.
\* (For an empty wallet list the network pass completes in the same handler.)
QuickPassStep ==
  /\ IsBalance
  /\ lastStep'.name \in {"timer", "success"}
  /\ bal.subscriptions[lastStep'.sub].phase = "timer"
  /\ bal.subscriptions[lastStep'.sub].updateWalletsFirst

\* C12 as stated: a quick pass publishes zero for a wallet (and its
\* addresses) of which no successful network pass retrieved the balance, and
\* for any other wallet the predicted values the most recent successful
\* network pass retrieved for it.
C12_CacheFallbackOfAnyPass ==
  [][QuickPassStep /\ lastStep'.name = "timer" =>
       LET wallets == Get(bal.savedWalletsList)
           list == Get(bal'.walletsWithBalanceList)
       IN \A i \in DOMAIN wallets :
            IF wallets[i].id \in bal.retrievedWallets
            THEN /\ wallets[i].id \in DOMAIN bal.lastPass
                 /\ list[i] = ListFromCache(wallets, bal.lastPass)[i]
            ELSE list[i] = ListFromCache(wallets, EmptyMap)[i]]_vars

\* C12, amended: a quick pass publishes, for each wallet of the latest wallet
\* list, the predicted values the most recent successful network pass
\* retrieved for that wallet and its addresses, and zero for a wallet or an
\* address that pass did not retrieve (also when an earlier successful pass
\* had retrieved it); passes that failed or were cancelled since then do not
\* change the values.
C12_CacheFallback ==
  [][QuickPassStep /\ lastStep'.name = "timer" =>
       bal'.walletsWithBalanceList =
         Some(ListFromCache(Get(bal.savedWalletsList), bal.lastPass))]_vars

\* A quick pass published the balance of a successful network pass after a
\* later network pass had failed.
C12_Witness ==
  /\ IsBalance
  /\ lastStep.name = "timer"
  /\ bal.replaced
  /\ bal.hadErrorRefreshingBalance
  /\ bal.firstFullUpdateMade
  /\ Get(bal.walletsWithBalanceList)[1].coins > 0

-----------------------------------------------------------------------------
(* Properties of refreshBalance() and of wallet list changes *)

\* The published list has the wallets and addresses of the latest wallet set.
RebuiltFromLatest(b) ==
  /\ b.walletsWithBalanceList # None
  /\ LET list == Get(b.walletsWithBalanceList)
         wallets == Get(b.savedWalletsList)
     IN /\ Len(list) = Len(wallets)
        /\ \A i \in DOMAIN wallets :
              /\ list[i].id = wallets[i].id
              /\ [j \in DOMAIN list[i].addresses |-> list[i].addresses[j].address]
                   = wallets[i].addresses

\* C13: after a wallet list was received by a live operator, the list rebuilt
\* from the latest wallet set is published before any node request of a
\* network pass is sent, whatever was called in between (refreshBalance()
\* before the delay-0 timer fires included): while requests of a network
\* pass are in flight, the published list is that of the latest wallet set.
C13_RebuiltBeforeNetwork ==
  (IsBalance /\ ~bal.disposed /\ NetworkPassRunning(bal)) => RebuiltFromLatest(bal)

\* C14 as stated: every refreshBalance() on a live operator schedules one
\* refresh chain with delay zero, in whatever state the operator is (before
\* it received its first wallet list included).
C14_RefreshAlwaysStarts ==
  [][IsBalance /\ lastStep'.name = "refreshBalance" /\ ~bal.disposed =>
       NextPassScheduled(bal', 0)]_vars

\* C14, amended: refreshBalance() on a live operator that has received a
\* wallet list closes the chain that was scheduled or running and schedules
\* one chain with delay zero (network pass only); on an operator that has
\* not yet received a wallet list the call schedules nothing.
C14_RefreshStartsOnceWalletsKnown ==
  [][IsBalance /\ lastStep'.name = "refreshBalance" /\ ~bal.disposed =>
       IF bal.savedWalletsList # None
       THEN NextPassScheduled(bal', 0)
       ELSE Active(bal') = {}]_vars

\* refreshBalance() was called on a live operator whose last network pass
\* had failed (the retry was waiting for errorUpdatePeriod): the chain now
\* scheduled has delay zero.
C14_Witness ==
  /\ IsBalance
  /\ lastStep.name = "refreshBalance"
  /\ ~bal.disposed
  /\ bal.hadErrorRefreshingBalance
  /\ NextPassScheduled(bal, 0)

-----------------------------------------------------------------------------
(* Properties of the balances of a network pass *)

\* A wallet of the last successful pass has an aggregated confirmed balance
\* that differs from its aggregated predicted balance.
SomeWalletPending(b) ==
  \E id \in DOMAIN b.lastPass : b.lastPass[id].current # b.lastPass[id].predicted

\* C15: after a successful network pass hasPendingTransactions is true if and
\* only if at least one wallet of the pass has an aggregated confirmed
\* balance different from its aggregated predicted balance; after a pass
\* over an empty wallet list it is false.
C15_PendingIffWalletDiffers ==
  [][IsBalance /\ lastStep'.name = "success" =>
       /\ bal'.hasPendingTransactions = SomeWalletPending(bal')
       /\ Get(bal.savedWalletsList) = <<>> => ~bal'.hasPendingTransactions]_vars

\* A pass over two wallets succeeded: the confirmed balance of one wallet is
\* above its predicted balance, those of the other are equal, and
\* hasPendingTransactions is true.
C15_Witness ==
  /\ IsBalance
  /\ lastStep.name = "success"
  /\ bal.hasPendingTransactions
  /\ DOMAIN bal.lastPass = {"w1", "w2"}
  /\ bal.lastPass["w1"].current = bal.lastPass["w1"].predicted
  /\ bal.lastPass["w2"].current > bal.lastPass["w2"].predicted

\* An address of a wallet of the last successful pass has a confirmed balance
\* that differs from its predicted balance.
SomeAddressPending(b) ==
  \E id \in DOMAIN b.lastPass :
    \E a \in DOMAIN b.lastPass[id].addresses :
      b.lastPass[id].addresses[a].current # b.lastPass[id].addresses[a].predicted

\* C16: after a successful network pass, whenever an address of a wallet of
\* the pass has a confirmed balance different from its predicted balance,
\* hasPendingTransactions is true, whatever the balances of the other
\* addresses of the wallet are.
C16_PendingIfAddressDiffers ==
  [][IsBalance /\ lastStep'.name = "success" =>
       (SomeAddressPending(bal') => bal'.hasPendingTransactions)]_vars

\* C17: in every list the operator publishes, whatever quick passes, network
\* passes and wallet list changes came before (a wallet gaining or losing
\* addresses included), the coins of each wallet are the sum of the coins of
\* its addresses, and no balance is negative.
C17_WalletCoinsAreSum ==
  (IsBalance /\ bal.walletsWithBalanceList # None) =>
    \A i \in DOMAIN Get(bal.walletsWithBalanceList) :
      LET wallet == Get(bal.walletsWithBalanceList)[i] IN
      /\ wallet.coins = AddressCoins(wallet.addresses)
      /\ wallet.coins >= 0
      /\ \A j \in DOMAIN wallet.addresses : wallet.addresses[j].coins >= 0

-----------------------------------------------------------------------------
(* Properties of the requests of a network pass *)

\* The request a fetch has in flight asks for the balance of its current
\* address: at 'pending', or at the block confirmationsNeeded - 1 below the
\* height the fetch holds, and at block 0 when that would be below 0.
BalanceQueryAsSpecified(f, coin) ==
  LET request == Request(f, coin) IN
  /\ f.step = "pending" =>
        /\ Len(request) = 3
        /\ request[1] = "eth_getBalance"
        /\ request[2] = CurrentAddress(f)
        /\ request[3] = "pending"
  /\ f.step = "confirmed" =>
        /\ Len(request) = 3
        /\ request[1] = "eth_getBalance"
        /\ request[2] = CurrentAddress(f)
        /\ SubSeq(request[3], 1, 2) = <<"0", "x">>
        /\ LET block == ParseHex(Substr2(request[3]))
               wanted == f.currentBlockNumber - (coin.confirmationsNeeded - 1)
           IN /\ block >= 0
              /\ block = IF wanted > 0 THEN wanted ELSE 0

BalanceSteps == {"pending", "confirmed"}

\* C18: for every address a network pass fetches, the predicted balance is
\* asked at block tag 'pending' and the confirmed balance at block
\* max(0, height - (confirmationsNeeded - 1)), never a negative block; height
\* is the one the eth_blockNumber reply of that wallet's fetch gave, kept for
\* all the addresses of the wallet.
C18_BlockOfBalanceQueries ==
  [][IsBalance =>
       \A id \in SubIds :
         bal'.subscriptions[id].phase = "network" =>
           \A i \in DOMAIN bal'.subscriptions[id].fetch :
             LET after == bal'.subscriptions[id].fetch[i] IN
             /\ BalanceQueryAsSpecified(after, currentCoin)
             /\ ( /\ bal.subscriptions[id].phase = "network"
                  /\ bal.subscriptions[id].fetch[i].step \in BalanceSteps
                  /\ after.step \in BalanceSteps )
                => after.currentBlockNumber = bal.subscriptions[id].fetch[i].currentBlockNumber]_vars

\* The confirmed balance of the second address of a wallet is asked at block
\* 0 because the height (0) is below confirmationsNeeded - 1 (1).
C18_Witness ==
  /\ IsBalance
  /\ currentCoin.confirmationsNeeded = 2
  /\ \E id \in SubIds :
        /\ bal.subscriptions[id].phase = "network"
        /\ LET f == bal.subscriptions[id].fetch[1] IN
           /\ f.step = "confirmed"
           /\ Len(f.wallet.addresses) = 2
           /\ Len(f.addresses) = 1
           /\ f.currentBlockNumber = 0
           /\ Request(f, currentCoin)[3] = Quantity(0)

\* The eth_getBalance requests a running pass has in flight at the node.
BalanceRequestsInFlight(sub) ==
  { i \in DOMAIN sub.fetch : sub.fetch[i].step \in BalanceSteps }

\* C19: while a network pass runs, at most one eth_getBalance request of the
\* pass is in flight at the node at any moment, however many wallets and
\* addresses the pass covers.
C19_OneBalanceRequestAtATime ==
  IsBalance =>
    \A id \in SubIds :
      bal.subscriptions[id].phase = "network" =>
        Cardinality(BalanceRequestsInFlight(bal.subscriptions[id])) <= 1

-----------------------------------------------------------------------------
(* Properties of EthBlockchainOperator's progress *)

\* The block numbers the node put in its syncing replies.
SyncingBlocks == { <<100, 200>>, <<0, 1>>, <<255, 256>> }

\* The event that stands for a reply: the numbers the node encoded.
EventOfReply(result) ==
  IF result = NotSyncing
  THEN [currentBlock |-> 0, highestBlock |-> 0, synchronized |-> TRUE]
  ELSE LET blocks == CHOOSE b \in SyncingBlocks : result = Syncing(b[1], b[2])
       IN [currentBlock |-> blocks[1], highestBlock |-> blocks[2], synchronized |-> FALSE]

\* C20: each eth_syncing reply that reaches the operator makes progress emit
\* exactly one ProgressEvent: {0, 0, synchronized} for the reply false, the
\* hex-decoded currentBlock and highestBlock with synchronized false for any
\* other reply (0x64 and 0xc8 give 100 and 200); an event with synchronized
\* true has both block numbers 0.
C20_ProgressOfReply ==
  [][\A id \in SubIds, result \in SyncingReplies, reDispose \in BOOLEAN :
       (BcNodeReplies(id, result, reDispose) /\ "progress" \notin bc.completed) =>
         /\ bc'.emitted["progress"] = 1
         /\ bc'.progress = Some(EventOfReply(result))
         /\ ( /\ ~result.isFalse
              /\ result.currentBlock = <<"0", "x", "6", "4">>
              /\ result.highestBlock = <<"0", "x", "c", "8">> )
            => bc'.progress = Some([currentBlock |-> 100, highestBlock |-> 200,
                                    synchronized |-> FALSE])
         /\ Get(bc'.progress).synchronized =>
              Get(bc'.progress).currentBlock = 0 /\ Get(bc'.progress).highestBlock = 0]_vars

\* The reply with blocks 0x64 and 0xc8 arrived and progress emitted the event
\* with blocks 100 and 200.
C20_Witness ==
  /\ IsBlockchain
  /\ lastStep.name = "success"
  /\ bc.emitted["progress"] = 1
  /\ bc.progress = Some([currentBlock |-> 100, highestBlock |-> 200, synchronized |-> FALSE])

\* Exactly one subscription of the blockchain operator is open: a timer of
\* the given delay, held by dataSubscription.
PollScheduled(o, delayMs) ==
  /\ Active(o) = {o.dataSubscription}
  /\ o.subscriptions[o.dataSubscription] = [FreeSub EXCEPT !.phase = "timer", !.delayMs = delayMs]

\* C21: unless the operator is disposed, an eth_syncing query that completes
\* leaves exactly one poll scheduled - after updatePeriod when it gave a
\* result (whatever the result), after errorUpdatePeriod when it failed; once
\* started the loop always has exactly one timer or query open, never none
\* and never two.
C21_PollingLoop ==
  [][IsBlockchain =>
       /\ Cardinality(Active(bc')) <= 1
       /\ ~bc'.disposed =>
            /\ lastStep'.name = "success" =>
                 PollScheduled(bc', BlockchainUpdatePeriod(currentCoin))
            /\ lastStep'.name = "failure" =>
                 PollScheduled(bc', BlockchainErrorUpdatePeriod(currentCoin))
            /\ bc'.operatorsSubscription = "complete" => Cardinality(Active(bc')) = 1]_vars

\* A query to a remote node failed after an earlier one had succeeded: the
\* next poll waits for errorUpdatePeriod.
C21_Witness ==
  /\ IsBlockchain
  /\ ~currentCoin.isLocal
  /\ ~bc.disposed
  /\ lastStep.name = "failure"
  /\ bc.progress # None
  /\ PollScheduled(bc, 30 * 1000)

-----------------------------------------------------------------------------
(* Properties of the start of the operators *)

\* Nothing is scheduled, running or in flight.
Idle(o) == Active(o) = {} /\ o.staleReplies = 0

\* C22: before the registry has published a non-null operator set the
\* blockchain and the balance operator schedule nothing and send no node
\* request; the publication starts the blockchain poll with delay 0 and
\* subscribes the balance operator to the wallet list, each emission of
\* which starts a refresh with delay 0 (quick pass first); an operator
\* disposed before the publication never starts.
C22_StartOnOperatorSet ==
  [][/\ IsBlockchain =>
          /\ bc'.operatorsSubscription # "complete" => Idle(bc')
          /\ lastStep'.name = "operatorsPublished" => PollScheduled(bc', 0)
          /\ (bc.disposed /\ bc.operatorsSubscription # "complete") => Idle(bc')
     /\ IsBalance =>
          /\ bal'.operatorsSubscription # "complete" =>
               Idle(bal') /\ bal'.walletsSubscription = Null
          /\ lastStep'.name = "operatorsPublished" =>
               Idle(bal') /\ bal'.walletsSubscription = "subscribed"
          /\ lastStep'.name = "walletsEmit" =>
               /\ Active(bal') = {bal'.dataRefreshSubscription}
               /\ bal'.subscriptions[bal'.dataRefreshSubscription] =
                    [FreeSub EXCEPT !.phase = "timer", !.updateWalletsFirst = TRUE]
          /\ (bal.disposed /\ bal.operatorsSubscription # "complete") => Idle(bal')]_vars

\* dispose() was called on a blockchain operator before the operator set was
\* published, and again: nothing was started.
C22_Witness ==
  /\ IsBlockchain
  /\ bc.disposed
  /\ bc.operatorsSubscription = "unsubscribed"
  /\ lastStep.name = "disposeAgain"
  /\ Idle(bc)

-----------------------------------------------------------------------------
(* Properties of the error flag and of the cache *)

\* C23: hadErrorRefreshingBalance, once true, stays true through every step
\* that is not the successful completion of a network pass (cancelling a
\* chain, the quick pass, a wallet list emission, refreshBalance(), replies
\* and further failures), and it is false after every successful network pass.
C23_ErrorFlagPersists ==
  [][IsBalance =>
       /\ (bal.hadErrorRefreshingBalance /\ lastStep'.name # "success") =>
            bal'.hadErrorRefreshingBalance
       /\ lastStep'.name = "failure" => bal'.hadErrorRefreshingBalance
       /\ lastStep'.name = "success" => ~bal'.hadErrorRefreshingBalance]_vars

\* A pass failed; the next network pass, of an operator that has published
\* a list, is running and got a reply: the flag is still true.
C23_Witness ==
  /\ IsBalance
  /\ ~bal.disposed
  /\ bal.hadErrorRefreshingBalance
  /\ lastStep.name = "reply"
  /\ bal.walletsWithBalanceList # None
  /\ NetworkPassRunning(bal)

-----------------------------------------------------------------------------
(* Properties of EthNodeOperator's version *)

\* Positions of the '/' characters of a text.
Slashes(text) == { k \in DOMAIN text : text[k] = "/" }

\* The text up to its second '/' (the whole text when it has only one).
UpToSecondSlash(text) ==
  IF Cardinality(Slashes(text)) < 2 THEN text
  ELSE LET second == CHOOSE k \in Slashes(text) :
                       Cardinality({ x \in Slashes(text) : x < k }) = 1
       IN SubSeq(text, 1, second - 1)

\* C26: a version reply never makes EthNodeOperator fail: a reply with at
\* least two '/'-separated parts gives nodeVersion = first part '/' second
\* part; any other reply gives the reply itself when it has fewer than 15
\* characters, else its first 12 characters and '...', so that nodeVersion
\* has at most 15 characters in that case.
C26_NodeVersion ==
  [][\A id \in SubIds, response \in VersionReplies :
       NodeReplies(id, response) =>
         /\ ~node'.thrown
         /\ node'.remoteNodeDataUpdated
         /\ IF Slashes(response) # {}
            THEN node'.nodeVersion = UpToSecondSlash(response)
            ELSE /\ Len(node'.nodeVersion) <= 15
                 /\ Len(response) < 15 => node'.nodeVersion = response
                 /\ Len(response) >= 15 =>
                      /\ Len(node'.nodeVersion) = 15
                      /\ SubSeq(node'.nodeVersion, 1, 12) = SubSeq(response, 1, 12)
                      /\ SubSeq(node'.nodeVersion, 13, 15) = <<".", ".", ".">>]_vars

\* A reply of 15 characters without '/' arrived: the version shown is its
\* first 12 characters and '...'.
C26_Witness ==
  /\ IsNode
  /\ lastStep.name = "success"
  /\ node.nodeVersion =
       <<"a", "b", "c", "d", "e", "f", "g", "h", "i", "j", "k", "l", ".", ".", ".">>

-----------------------------------------------------------------------------
(* Properties of the polling periods *)

\* C28 as stated: in both polling operators, for a local and for a remote
\* node, errorUpdatePeriod is strictly shorter than updatePeriod.
C28_ErrorPeriodShorter ==
  /\ bal.errorUpdatePeriod < bal.updatePeriod
  /\ bc.errorUpdatePeriod < bc.updatePeriod

\* C28, amended: in both polling operators, for a local and for a remote
\* node, errorUpdatePeriod is never longer than updatePeriod; it is strictly
\* shorter except in EthBlockchainOperator with a local node, where both
\* periods are 2 seconds.
C28_ErrorPeriodNotLonger ==
  /\ bal.errorUpdatePeriod < bal.updatePeriod
  /\ bc.errorUpdatePeriod <= bc.updatePeriod
  /\ (bc.errorUpdatePeriod = bc.updatePeriod) <=> currentCoin.isLocal
  /\ currentCoin.isLocal => bc.updatePeriod = 2 * 1000

\* A query of the blockchain operator to a local node failed after an
\* earlier one had succeeded: the retry waits as long as a regular poll.
C28_Witness ==
  /\ IsBlockchain
  /\ currentCoin.isLocal
  /\ lastStep.name = "failure"
  /\ bc.progress # None
  /\ PollScheduled(bc, bc.errorUpdatePeriod)
  /\ bc.errorUpdatePeriod = bc.updatePeriod

-----------------------------------------------------------------------------
(* Properties of the per-address fetch and of the cache *)

\* The addresses of the wallet a fetch works on.
WalletAddresses(f) == { f.wallet.addresses[j].address : j \in DOMAIN f.wallet.addresses }

\* C29: the per-address fetch of a wallet - a wallet without addresses
\* included - asks the node only for balances of addresses of the wallet,
\* and the map it returns has exactly the addresses of the wallet as keys.
C29_FetchCoversWalletAddresses ==
  IsBalance =>
    \A id \in SubIds :
      bal.subscriptions[id].phase = "network" =>
        \A i \in DOMAIN bal.subscriptions[id].fetch :
          LET f == bal.subscriptions[id].fetch[i] IN
          /\ f.step \in BalanceSteps => Request(f, currentCoin)[2] \in WalletAddresses(f)
          /\ f.step = "done" => DOMAIN f.currentElements = WalletAddresses(f)

\* C30: savedBalanceData changes only in the step in which a network pass
\* that retrieved the data of all its wallets completes: no other step - a
\* quick pass, a reply or the failure of a running pass, the cancellation of
\* a pass - adds, removes or changes an entry.
C30_CacheWrittenOnlyOnSuccess ==
  [][(IsBalance /\ lastStep'.name # "success") =>
       bal'.savedBalanceData = bal.savedBalanceData]_vars

-----------------------------------------------------------------------------
(* Properties of the services that consume the operator registry *)

\* C24: while the current bundle is null, or before the first bundle was
\* received, no call to BlockchainService or SpendingService fails with an
\* error caused by the missing operator.
C24_CallsTolerateAbsentBundle == ~services.lastCall.thrown

OneOrTwoLive(s) ==
  /\ s.bundles > 0 => Cardinality(s.live) \in {1, 2}
  /\ Cardinality(s.live) = 2 => s.phase # "idle" /\ s.live = {s.bundles - 1, s.bundles}
  /\ s.currentOperators.kind = "operator" => s.currentOperators.generation \in s.live
  /\ \A operator \in {s.blockchainService.operator, s.spendingService.operator} :
        operator.kind = "operator" => operator = s.currentOperators

-----------------------------------------------------------------------------
(* Properties of the send form *)

\* C27: when injectTransaction succeeds, the send is handled as a success
\* whatever noteSaved is - the form is reset, busy is cleared and the navbar
\* switch is enabled - and a warning, not an error, is shown exactly when the
\* note is not empty and was not saved; when injectTransaction fails, the
\* error is shown, busy is cleared, the switch is enabled and the form keeps
\* what the user entered.
C27_NoteFailureIsNotSendFailure ==
  [][ /\ \A noteSaved \in BOOLEAN :
           InjectTransactionSucceeds(noteSaved)
             => /\ ~sendForm'.busy
                /\ sendForm'.switchEnabled
                /\ sendForm'.note = <<>> /\ ~sendForm'.destinations
                /\ sendForm'.msgBar =
                     IF Trim(sendForm.note) # <<>> /\ ~noteSaved THEN "warning" ELSE "done"
      /\ InjectTransactionFails
           => /\ ~sendForm'.busy
              /\ sendForm'.switchEnabled
              /\ sendForm'.msgBar = "error"
              /\ sendForm'.note = sendForm.note
              /\ sendForm'.destinations = sendForm.destinations ]_vars

\* A transaction with a note was sent and the note was not saved: the warning
\* is shown over a form that was reset and is not busy.
C27_Witness ==
  /\ sendForm.outcome = "noteNotSaved"
  /\ sendForm.transactionNote # <<>>
  /\ sendForm.msgBar = "warning"
  /\ sendForm.note = <<>>
  /\ ~sendForm.busy
  /\ sendForm.switchEnabled

-----------------------------------------------------------------------------
(* Properties of the flags of EthBalanceAndOutputsOperator *)

\* C31 as stated: for every wallet list, the empty one included, the value of
\* hasPendingTransactions after a quick pass is the value before it.
C31_QuickPassKeepsPending ==
  [][QuickPassStep =>
       quickPass(bal).hasPendingTransactions = bal.hasPendingTransactions]_vars

\* C31: a quick pass over a wallet list that is not empty leaves
\* hasPendingTransactions at the value it had, and it still has that value
\* when the handler that ran the quick pass ends with the network pass in
\* flight; a quick pass over the empty list sets it to false.
C31_QuickPassKeepsPendingOfWallets ==
  [][QuickPassStep =>
       /\ quickPass(bal).hasPendingTransactions =
            (Get(bal.savedWalletsList) # <<>> /\ bal.hasPendingTransactions)
       /\ lastStep'.name = "timer" =>
            /\ Get(bal.savedWalletsList) # <<>>
            /\ bal'.hasPendingTransactions = bal.hasPendingTransactions]_vars

\* A quick pass ran while hasPendingTransactions was true: the subject was
\* notified by the quick pass and is still true.
C31_Witness ==
  /\ IsBalance
  /\ lastStep.name = "timer"
  /\ bal.emitted["hasPendingTransactions"] = 1
  /\ bal.hasPendingTransactions
  /\ NetworkPassRunning(bal)

\* C32: firstFullUpdateMade never returns to false; it changes, and its
\* observers are notified (once), only in the step in which the first network
\* pass completes successfully, after which it is true; lastBalancesUpdateTime
\* changes and notifies only when a network pass completes successfully.
C32_FirstFullUpdateOnce ==
  [][IsBalance =>
       /\ bal.firstFullUpdateMade => bal'.firstFullUpdateMade
       /\ lastStep'.name = "success" => bal'.firstFullUpdateMade
       /\ bal'.firstFullUpdateMade # bal.firstFullUpdateMade => lastStep'.name = "success"
       /\ bal'.emitted["firstFullUpdateMade"] <= 1
       /\ bal'.emitted["firstFullUpdateMade"] = 1 =>
            ~bal.firstFullUpdateMade /\ lastStep'.name = "success"
       /\ bal'.lastBalancesUpdateTime # bal.lastBalancesUpdateTime => lastStep'.name = "success"
       /\ bal'.emitted["lastBalancesUpdateTime"] > 0 => lastStep'.name = "success"]_vars

\* After the first successful pass a network pass failed: firstFullUpdateMade
\* is still true and the failing handler notified neither subject.
C32_Witness ==
  /\ IsBalance
  /\ lastStep.name = "failure"
  /\ bal.firstFullUpdateMade
  /\ bal.lastBalancesUpdateTime # Null
  /\ bal.emitted["firstFullUpdateMade"] = 0
  /\ bal.emitted["lastBalancesUpdateTime"] = 0
  /\ bal.emitted["hadErrorRefreshingBalance"] = 1

-----------------------------------------------------------------------------
(* Liveness of the balance polling *)

\* EthBalanceAndOutputsOperator with timers that fire and a node that answers
\* every request (with a result or with an error), over a wallet whose
\* address changes.
PollingInit ==
  /\ operatorClass = "balance"
  /\ currentCoin \in Coins
  /\ bal = NewBalanceOperator(currentCoin)
  /\ bc = NewBlockchainOperator(currentCoin)
  /\ node = NewNodeOperator(currentCoin)
  /\ walletsService = { <<WalletBase("w1", <<"a1">>)>>, <<WalletBase("w1", <<"a2">>)>> }
  /\ lastStep = Step("constructor", 0, TRUE)
  /\ reconcile = None
  /\ services = NewServices
  /\ sendForm = NewSendForm
  /\ feeForm = NewFeeForm(FALSE)

TimerElapses == \E id \in SubIds, reDispose \in BOOLEAN : BalTimerFires(id, reDispose)

NodeAnswers ==
  \/ \E id \in SubIds, i \in 1..2, reply \in HeightReplies \cup BalanceReplies, reDispose \in BOOLEAN :
       BalNodeReplies(id, i, reply, reDispose)
  \/ \E id \in SubIds, i \in 1..2, reDispose \in BOOLEAN : BalNodeFails(id, i, reDispose)

PollingNext ==
  \/ BalOperatorsPublished
  \/ \E wallets \in WalletLists : BalWalletsEmit(wallets)
  \/ BalRefreshBalance
  \/ BalDispose
  \/ TimerElapses
  \/ NodeAnswers
  \/ BalStaleReply

\* Weak fairness of TimerElapses and of NodeAnswers.  NodeAnswers is enabled
\* exactly when a network pass is running (a running pass has a request in
\* flight and every request can be answered), so its fairness is written with
\* that condition.
PollingSpec ==
  /\ PollingInit /\ [][PollingNext]_vars
  /\ WF_vars(TimerElapses)
  /\ ([]<>(~NetworkPassRunning(bal)) \/ []<><<NodeAnswers>>_vars)

TimerPending(b) == \E id \in SubIds : b.subscriptions[id].phase = "timer"

\* C33: a chain that ends, by success or by failure, on an operator that is
\* not disposed leaves exactly one chain scheduled, for a network pass only,
\* after updatePeriod or errorUpdatePeriod; and with timers that fire and a
\* node that answers, until dispose() a scheduled pass always starts and a
\* running pass always ends with the next one scheduled.
C33_PollingNeverStops ==
  /\ [][(lastStep'.name \in {"success", "failure"} /\ lastStep'.current /\ ~bal'.disposed) =>
          NextPassScheduled(bal', IF lastStep'.name = "success"
                                  THEN BalanceUpdatePeriod(currentCoin)
                                  ELSE BalanceErrorUpdatePeriod(currentCoin))]_vars
  /\ (TimerPending(bal) /\ ~bal.disposed) ~> (NetworkPassRunning(bal) \/ bal.disposed)
  /\ (NetworkPassRunning(bal) /\ ~bal.disposed) ~> (TimerPending(bal) \/ bal.disposed)

\* After a failed pass and a successful one, a pass failed again and the next
\* one is scheduled after errorUpdatePeriod.
C33_Witness ==
  /\ lastStep.name = "failure"
  /\ ~bal.disposed
  /\ bal.firstFullUpdateMade
  /\ NextPassScheduled(bal, BalanceErrorUpdatePeriod(currentCoin))

-----------------------------------------------------------------------------
(* Properties of EthNodeOperator's query of the node version *)

QueryScheduled(o, delayMs) ==
  /\ Active(o) = {o.basicInfoSubscription}
  /\ o.subscriptions[o.basicInfoSubscription] = [FreeSub EXCEPT !.phase = "timer", !.delayMs = delayMs]

\* C34: the constructor schedules the query of the node version with delay 0;
\* at most one timer or query is pending; a query that fails schedules one
\* query after 2000 ms (local node) or 15000 ms (remote node); the first
\* reply ends the querying and sets remoteNodeDataUpdated, which is false
\* until then, changes in no other step and never returns to false.
C34_VersionQueriedUntilReply ==
  /\ IsNode => QueryScheduled(node, 0) /\ ~node.remoteNodeDataUpdated
  /\ [][IsNode =>
          /\ Cardinality(Active(node')) <= 1
          /\ lastStep'.name = "failure" =>
               QueryScheduled(node', IF currentCoin.isLocal THEN 2000 ELSE 15000)
          /\ lastStep'.name = "success" => node'.remoteNodeDataUpdated
          /\ node'.remoteNodeDataUpdated =>
               Active(node') = {} /\ node'.staleReplies = 0
          /\ node.remoteNodeDataUpdated => node'.remoteNodeDataUpdated
          /\ node'.remoteNodeDataUpdated # node.remoteNodeDataUpdated =>
               lastStep'.name = "success" /\ node'.emitted["remoteNodeDataUpdated"] = 1]_vars

\* The node of a remote coin answered: the version is known, the flag is true
\* and nothing is pending.
C34_Witness ==
  /\ IsNode
  /\ ~currentCoin.isLocal
  /\ lastStep.name = "success"
  /\ node.remoteNodeDataUpdated
  /\ node.nodeVersion # <<>>
  /\ Active(node) = {}

-----------------------------------------------------------------------------
(* Properties of the fee fields of the send form *)

\* C35: when recommended fees arrive and the fee field is empty, the normal
\* fee type (2) is selected unless a faster type, high (1) or very high (0),
\* costs at 5 decimals no more than the normal one, and then a faster type
\* that costs no more than the normal one is selected.
C35_FasterTypeIfNotDearer ==
  [][\A fees \in RecommendedFees :
       (FeesArrive(fees) /\ feeForm.fee = EmptyFee) =>
         LET map == Get(feeForm'.recommendedFeesMap)
             faster == { t \in {0, 1} : map[t] <= map[2] }
         IN IF faster = {} THEN feeForm'.feeType = 2 ELSE feeForm'.feeType \in faster]_vars

\* C37: for a coin without hours, a form that validates has a fee that is a
\* number of at most 5 decimals and not negative, and zero only if the
\* recommended fees allow zero.
C37_ValidFee ==
  (~feeForm.coinHasHours /\ validateForm(feeForm) = "valid") =>
     /\ feeForm.fee.kind = "number"
     /\ feeForm.fee.value % Unit = 0
     /\ feeForm.fee.value >= 0
     /\ feeForm.fee.value = 0 => feeForm.zeroFeeAllowed

-----------------------------------------------------------------------------
(* Properties of the published list after a network pass *)

\* C36: after every successful network pass the published list has, wallet
\* by wallet, the ids and the addresses, in order, of the latest wallet list.
C36_AddressesOfLatestWallets ==
  [][(IsBalance /\ lastStep'.name = "success") =>
       LET wallets == Get(bal'.savedWalletsList)
           list == Get(bal'.walletsWithBalanceList)
       IN /\ Len(list) = Len(wallets)
          /\ \A i \in DOMAIN wallets :
               /\ list[i].id = wallets[i].id
               /\ [j \in DOMAIN list[i].addresses |-> list[i].addresses[j].address]
                    = wallets[i].addresses]_vars

-----------------------------------------------------------------------------
(* Properties of the send form's requests to the spending service *)

\* The step calls spendingService.createTransaction.
CreateTransactionCalled ==
  (\E creatingPreviewTx \in BOOLEAN : ButtonPressed(creatingPreviewTx) /\ sendForm'.stage = "creating")
    \/ PasswordSubmitted \/ HwCheckSucceeds

\* C38: a call of createTransaction that asks for a signed transaction
\* (unsigned = false) from an encrypted wallet that is not a hardware wallet
\* carries the password of the password dialog; in the manual unsigned mode
\* every call asks for an unsigned transaction and carries no password, the
\* password dialog is never opened and injectTransaction is never called.
C38_PasswordForSignedRequests ==
  [][ /\ CreateTransactionCalled =>
           /\ (/\ ~sendForm'.request.unsigned
               /\ sendForm.wallet.encrypted
               /\ ~sendForm.wallet.isHardware) => sendForm'.request.password
           /\ sendForm.showForManualUnsigned =>
                sendForm'.request.unsigned /\ ~sendForm'.request.password
      /\ (sendForm'.passwordDialog /\ ~sendForm.passwordDialog) => ~sendForm.showForManualUnsigned
      /\ (sendForm'.stage = "injecting" /\ sendForm.stage # "injecting") =>
           ~sendForm.showForManualUnsigned ]_vars

\* The preview of a transaction of an encrypted bip44 wallet was requested:
\* the request asks for a signed transaction and carries the password.
C38_Witness ==
  /\ sendForm.stage = "creating"
  /\ sendForm.creatingPreviewTx
  /\ sendForm.wallet = [encrypted |-> TRUE, isHardware |-> FALSE, bip44 |-> TRUE]
  /\ sendForm.request = [made |-> TRUE, unsigned |-> FALSE, password |-> TRUE]

====
